---------------------------- MODULE Spec2Model ----------------------------
(***************************************************************************)
(* Incremental 3D Delaunay / regular triangulation engine                  *)
(* (src/src/3rdparty/geogram/delaunay/delaunay_3d.cpp, class Delaunay3d).  *)
(*                                                                         *)
(* The tetrahedron store is modelled as the code keeps it: three flat      *)
(* arrays (cell_to_v_store_, cell_to_cell_store_, cell_next_) indexed from *)
(* 0, held here as sequences read through At(s, i) == s[i + 1].            *)
(* Coordinates are small integers, so the floating point determinant of    *)
(* orient_3d_inexact and the exact predicate PCK::orient_3d have the same  *)
(* sign.  The point pool holds no five cospherical (or power-cospherical)  *)
(* points with distinct coordinates, so the symbolic perturbation branch   *)
(* of the in-sphere predicates is never entered.                           *)
(***************************************************************************)
EXTENDS Integers, Sequences, FiniteSets, TLC

(***************************************************************************)
(* Bounds of the model                                                     *)
(***************************************************************************)
\* largest number of vertices handed to set_vertices
MaxN == 6
\* recursion fuel of the walks of locate (cells visited per walk)
MaxWalk == 12
\* largest number of vertices of a call when one object serves several calls
MaxReuseN == 5
\* largest number of set_vertices calls on one object
MaxCalls == 2

(***************************************************************************)
(* Sentinels of the header, as 32 bit words read as signed integers        *)
(***************************************************************************)
VERTEX_AT_INFINITY == -1
NO_TETRAHEDRON == -1
NOT_IN_LIST == -1
NOT_IN_LIST_BIT == (-2147483647) - 1
END_OF_LIST == 2147483647
\* value of a local variable that was declared and never assigned
UNINIT == -7

POSITIVE == 1
ZERO == 0
NEGATIVE == -1

(***************************************************************************)
(* The input points: <<x, y, z, t>>, t being the fourth coordinate that    *)
(* only the weighted mode reads.  A, B, C are collinear (C on edge AB),    *)
(* A, B, C, D are coplanar, F lies inside the tetrahedron A B D E, H lies   *)
(* outside of it, and the last point has the coordinates of A.             *)
(***************************************************************************)
Pool ==
    << <<0, 0, 0, 0>>, <<6, 0, 0, 0>>, <<2, 0, 0, 0>>, <<0, 6, 0, 0>>,
       <<0, 0, 6, 0>>, <<2, 1, 1, 5>>, <<2, 3, 4, 1>>, <<0, 0, 0, 2>> >>

\* six more points, in convex position, for the queries: the cell on the
\* first, third, fourth and fifth of them has its four facets inside the hull
QueryPool ==
    << <<6, 0, 5, 0>>, <<0, 4, 6, 0>>, <<5, 1, 0, 0>>, <<2, 4, 0, 0>>,
       <<6, 4, 5, 0>>, <<6, 5, 3, 0>> >>

\* three more points, outside the tetrahedron of the first, second, fourth
\* and fifth point of Pool: inserted after these four and in this order, the
\* second is in conflict with five cells and the third with one cell
RecyclePool == << <<2, 3, 2, 0>>, <<2, 3, 3, 0>>, <<2, 3, 1, 0>> >>

\* one more point, beyond the facet BDE of the tetrahedron of the first,
\* second, fourth and fifth point of Pool and outside its circumscribed
\* sphere: inserted after these four, it is in conflict with one virtual cell
SeedPool == << <<7, 7, 7, 0>> >>

AllPoints == Pool \o QueryPool \o RecyclePool \o SeedPool

At(s, i) == s[i + 1]

\* the sequence with the elements of f, a function on 1..n
Flat(f) == SubSeq(f, 1, Len(f))

Put(s, i, x) == [s EXCEPT ![i + 1] = x]

geo_sgn(x) == IF x > 0 THEN POSITIVE ELSE IF x < 0 THEN NEGATIVE ELSE ZERO

geo_sqr(x) == x * x

det3x3(a11, a12, a13, a21, a22, a23, a31, a32, a33) ==
    a11 * (a22 * a33 - a23 * a32)
  - a12 * (a21 * a33 - a23 * a31)
  + a13 * (a21 * a32 - a22 * a31)

points_are_identical(p1, p2) ==
    p1[1] = p2[1] /\ p1[2] = p2[2] /\ p1[3] = p2[3]

orient_3d_inexact(p0, p1, p2, p3) ==
    geo_sgn(det3x3(p1[1] - p0[1], p1[2] - p0[2], p1[3] - p0[3],
                   p2[1] - p0[1], p2[2] - p0[2], p2[3] - p0[3],
                   p3[1] - p0[1], p3[2] - p0[2], p3[3] - p0[3]))

\* PCK::orient_3d: the exact sign of the same determinant
orient_3d(p0, p1, p2, p3) == orient_3d_inexact(p0, p1, p2, p3)

points_are_colinear(p1, p2, p3) ==
    /\ orient_3d(p1, p2, p3, <<0, 0, 0, 0>>) = ZERO
    /\ orient_3d(p1, p2, p3, <<0, 0, 1, 0>>) = ZERO
    /\ orient_3d(p1, p2, p3, <<0, 1, 0, 0>>) = ZERO
    /\ orient_3d(p1, p2, p3, <<1, 0, 0, 0>>) = ZERO

\* 4x4 determinant with rows <<a, b, c, d>>, expanded along the last column
det4x4(r1, r2, r3, r4) ==
    - r1[4] * det3x3(r2[1], r2[2], r2[3], r3[1], r3[2], r3[3], r4[1], r4[2], r4[3])
    + r2[4] * det3x3(r1[1], r1[2], r1[3], r3[1], r3[2], r3[3], r4[1], r4[2], r4[3])
    - r3[4] * det3x3(r1[1], r1[2], r1[3], r2[1], r2[2], r2[3], r4[1], r4[2], r4[3])
    + r4[4] * det3x3(r1[1], r1[2], r1[3], r2[1], r2[2], r2[3], r3[1], r3[2], r3[3])

\* row of the lifted determinant: q - p and the difference of the heights
LiftRow(q, p, hq, hp) == <<q[1] - p[1], q[2] - p[2], q[3] - p[3], hq - hp>>

\* PCK::orient_3dlifted_SOS: positive when p, lifted to height h, lies below
\* the hyperplane through the lifted vertices of a positively oriented cell
orient_3dlifted_SOS(p0, p1, p2, p3, p, h0, h1, h2, h3, h) ==
    geo_sgn(0 - det4x4(LiftRow(p0, p, h0, h), LiftRow(p1, p, h1, h),
                       LiftRow(p2, p, h2, h), LiftRow(p3, p, h3, h)))

SqNorm(q) == geo_sqr(q[1]) + geo_sqr(q[2]) + geo_sqr(q[3])

\* PCK::in_sphere_3d_SOS: positive when p is strictly inside the sphere
\* through the vertices of a positively oriented cell
in_sphere_3d_SOS(p0, p1, p2, p3, p) ==
    orient_3dlifted_SOS(p0, p1, p2, p3, p,
                        SqNorm(p0), SqNorm(p1), SqNorm(p2), SqNorm(p3), SqNorm(p))


(***************************************************************************)
(* State of a Delaunay3d object and of the set_vertices call in progress   *)
(***************************************************************************)
VARIABLES
    weighted_,            \* dimension = 4
    keep_infinite_,       \* Delaunay::keep_infinite_
    do_reorder_,          \* Delaunay::do_reorder_
    vertices,             \* the coordinate buffer, one point per vertex
    heights_,             \* lifted heights (weighted mode)
    reorder_,             \* insertion permutation
    cell_to_v_store_,     \* 4 vertex slots per cell, flat
    cell_to_cell_store_,  \* 4 neighbor slots per cell, flat
    cell_next_,           \* list link / mark stamp per cell
    first_free_,          \* head of the free list
    cur_stamp_,           \* current mark stamp
    nb_cells_,            \* Delaunay::nb_cells_, set by set_arrays
    nb_finite_cells_,     \* Delaunay::nb_finite_cells_
    pc,                   \* position of the set_vertices call
    loop_i,               \* index i of the insertion loop
    hint,                 \* local hint of set_vertices
    first4,               \* local v0, v1, v2, v3 of set_vertices
    last_insert,          \* what the last insert call did
    cb_log,               \* progress callback invocations so far: <<i, n, returned>>
    result,               \* value returned by set_vertices
    nb_calls,             \* number of set_vertices calls made on the object
    ctor,                 \* the constructor call that made the object
    query,                \* the last query made on the mesh and what it returned
    threads               \* the spinlock of locate and the call each thread runs

vars ==
    <<weighted_, keep_infinite_, do_reorder_, vertices, heights_, reorder_,
      cell_to_v_store_, cell_to_cell_store_, cell_next_, first_free_, cur_stamp_,
      nb_cells_, nb_finite_cells_, pc, loop_i, hint, first4, last_insert, cb_log,
      result, nb_calls, ctor, query, threads>>

(***************************************************************************)
(* Tetrahedron store (inline functions of the class).  A store is the      *)
(* record [cv, cc, next, first_free, stamp] of the five members above,     *)
(* with two logs that are no members and are never read back: calls, what  *)
(* the geo_debug_asserts of stellate_conflict_zone saw, and visits, the    *)
(* cells that were chained in a list or marked.                            *)
(***************************************************************************)
Store ==
    [cv |-> cell_to_v_store_, cc |-> cell_to_cell_store_, next |-> cell_next_,
     first_free |-> first_free_, stamp |-> cur_stamp_, calls |-> <<>>, visits |-> <<>>]

nb_vertices == Len(vertices)

vertex_ptr(v) == At(vertices, v)

max_t(m) == Len(m.cv) \div 4

tet_vertex(m, t, lv) == At(m.cv, 4 * t + lv)

tet_adjacent(m, t, lf) == At(m.cc, 4 * t + lf)

set_tet_vertex(m, t, lv, v) == [m EXCEPT !.cv = Put(m.cv, 4 * t + lv, v)]

set_tet_adjacent(m, t1, lf1, t2) == [m EXCEPT !.cc = Put(m.cc, 4 * t1 + lf1, t2)]

tet_next(m, t) == At(m.next, t)

\* (cell_next_[t] & NOT_IN_LIST_BIT) == 0: the sign bit of the word is clear
tet_is_in_list(m, t) == At(m.next, t) >= 0

tet_is_free(m, t) == tet_is_in_list(m, t)

tet_is_finite(m, t) ==
    /\ At(m.cv, 4 * t) >= 0
    /\ At(m.cv, 4 * t + 1) >= 0
    /\ At(m.cv, 4 * t + 2) >= 0
    /\ At(m.cv, 4 * t + 3) >= 0

tet_is_real(m, t) == ~tet_is_free(m, t) /\ tet_is_finite(m, t)

tet_is_virtual(m, t) ==
    /\ ~tet_is_free(m, t)
    /\ \/ At(m.cv, 4 * t) = VERTEX_AT_INFINITY
       \/ At(m.cv, 4 * t + 1) = VERTEX_AT_INFINITY
       \/ At(m.cv, 4 * t + 2) = VERTEX_AT_INFINITY
       \/ At(m.cv, 4 * t + 3) = VERTEX_AT_INFINITY

\* the vertex in slot lv, or the one in the next slot when lv holds infinity
finite_tet_vertex(m, t, lv) ==
    IF At(m.cv, 4 * t + lv) = -1
    THEN At(m.cv, 4 * t + ((lv + 1) % 4))
    ELSE At(m.cv, 4 * t + lv)

\* index of v among four slots: (T[1]==v) | ((T[2]==v)*2) | ((T[3]==v)*3)
find_4(T0, T1, T2, T3, v) ==
    IF T3 = v THEN 3 ELSE IF T2 = v THEN 2 ELSE IF T1 = v THEN 1 ELSE 0

find_tet_vertex(m, t, v) ==
    find_4(tet_vertex(m, t, 0), tet_vertex(m, t, 1), tet_vertex(m, t, 2),
           tet_vertex(m, t, 3), v)

find_tet_adjacent(m, t1, t2) ==
    find_4(tet_adjacent(m, t1, 0), tet_adjacent(m, t1, 1), tet_adjacent(m, t1, 2),
           tet_adjacent(m, t1, 3), t2)

halfedge_facet_ ==
    << <<4, 2, 3, 1>>, <<3, 4, 0, 2>>, <<1, 3, 4, 0>>, <<2, 0, 1, 4>> >>

tet_facet_vertex_ ==
    << <<1, 2, 3>>, <<0, 3, 2>>, <<3, 0, 1>>, <<1, 0, 2>> >>

tet_facet_vertex(f, v) == At(At(tet_facet_vertex_, f), v)

get_facet_by_halfedge(m, t, v1, v2) ==
    At(At(halfedge_facet_, find_tet_vertex(m, t, v1)), find_tet_vertex(m, t, v2))

\* the two facets <<f12, f21>> of t incident to the halfedge v1 v2
get_facets_by_halfedge(m, t, v1, v2) ==
    LET lv1 == find_tet_vertex(m, t, v1)
        lv2 == find_tet_vertex(m, t, v2)
    IN  <<At(At(halfedge_facet_, lv1), lv2), At(At(halfedge_facet_, lv2), lv1)>>

\* chains t at the head of the list <<first, last>>; gives the store and the list
add_tet_to_list(m, t, first, last) ==
    IF last = END_OF_LIST
    THEN [m |-> [m EXCEPT !.next = Put(m.next, t, END_OF_LIST),
                          !.visits = Append(m.visits, t)],
          first |-> t, last |-> t]
    ELSE [m |-> [m EXCEPT !.next = Put(m.next, t, first),
                          !.visits = Append(m.visits, t)],
          first |-> t, last |-> last]

remove_tet_from_list(m, t) == [m EXCEPT !.next = Put(m.next, t, NOT_IN_LIST)]

\* variant of set_tet_mark_stamp: the stamp is made from the next index
set_tet_mark_stampNext(m, stamp) == [m EXCEPT !.stamp = stamp + 1 + NOT_IN_LIST_BIT]

\* variant of set_tet_mark_stamp: every insertion has the stamp of vertex 0
set_tet_mark_stampSame(m, stamp) == [m EXCEPT !.stamp = NOT_IN_LIST_BIT]

\* cur_stamp_ = (stamp | NOT_IN_LIST_BIT)
set_tet_mark_stamp(m, stamp) == [m EXCEPT !.stamp = stamp + NOT_IN_LIST_BIT]

tet_is_marked(m, t) == At(m.next, t) = m.stamp

\* variant of mark_tet: the cell is left unmarked
mark_tetNothing(m, t) == m

\* variant of mark_tet: the cell is visited but its mark is not set
mark_tetUnmarked(m, t) == [m EXCEPT !.visits = Append(m.visits, t)]

mark_tet(m, t) ==
    [m EXCEPT !.next = Put(m.next, t, m.stamp), !.visits = Append(m.visits, t)]

\* a cell taken from the free list, or appended; its neighbor slots are unset
ClearAdjacent(m, t) ==
    [m |-> [m EXCEPT !.cc = Put(Put(Put(Put(m.cc, 4 * t, -1), 4 * t + 1, -1),
                                        4 * t + 2, -1), 4 * t + 3, -1)],
     t |-> t]

new_tetrahedron0(m) ==
    IF m.first_free = END_OF_LIST
    THEN ClearAdjacent([m EXCEPT !.cv = m.cv \o <<-1, -1, -1, -1>>,
                                 !.cc = m.cc \o <<-1, -1, -1, -1>>,
                                 !.next = Append(m.next, NOT_IN_LIST)],
                       max_t(m))
    ELSE ClearAdjacent(remove_tet_from_list(
                           [m EXCEPT !.first_free = tet_next(m, m.first_free)],
                           m.first_free),
                       m.first_free)

\* the four vertices of the cell r.t that new_tetrahedron0 gave
SetCellVertices(r, v1, v2, v3, v4) ==
    [m |-> [r.m EXCEPT !.cv = Put(Put(Put(Put(r.m.cv, 4 * r.t, v1), 4 * r.t + 1, v2),
                                      4 * r.t + 2, v3), 4 * r.t + 3, v4)],
     t |-> r.t]

new_tetrahedron(m, v1, v2, v3, v4) ==
    SetCellVertices(new_tetrahedron0(m), v1, v2, v3, v4)

\* height of vertex v (weighted mode only)
height(v) == At(heights_, v)

(***************************************************************************)
(* tet_is_conflict(t, p): p is the pointer to the coordinates of vertex pv *)
(***************************************************************************)
RECURSIVE tet_is_conflict(_, _, _)
\* variant of tet_is_conflict: a virtual cell whose finite facet is coplanar
\* with p is in conflict only when its finite neighbor is already listed
tet_is_conflictListedOnly(m, t, pv) ==
    LET p == vertex_ptr(pv)
        P(i) == IF tet_vertex(m, t, i) = -1 THEN p ELSE vertex_ptr(tet_vertex(m, t, i))
        inf == {lf \in 0..3 : tet_vertex(m, t, lf) = -1}
    IN  IF inf # {}
        THEN LET lf == CHOOSE x \in inf : \A y \in inf : x <= y
                 sign == orient_3d(P(0), P(1), P(2), P(3))
             IN  IF sign > 0 THEN TRUE
                 ELSE IF sign < 0 THEN FALSE
                 ELSE tet_is_in_list(m, tet_adjacent(m, t, lf))
        ELSE IF weighted_
        THEN orient_3dlifted_SOS(P(0), P(1), P(2), P(3), p,
                 height(finite_tet_vertex(m, t, 0)), height(finite_tet_vertex(m, t, 1)),
                 height(finite_tet_vertex(m, t, 2)), height(finite_tet_vertex(m, t, 3)),
                 height(pv)) > 0
        ELSE in_sphere_3d_SOS(P(0), P(1), P(2), P(3), p) > 0

tet_is_conflict(m, t, pv) ==
    LET p == vertex_ptr(pv)
        P(i) == IF tet_vertex(m, t, i) = -1 THEN p ELSE vertex_ptr(tet_vertex(m, t, i))
        inf == {lf \in 0..3 : tet_vertex(m, t, lf) = -1}
    IN  IF inf # {}
        THEN LET lf == CHOOSE x \in inf : \A y \in inf : x <= y
                 sign == orient_3d(P(0), P(1), P(2), P(3))
                 t2 == tet_adjacent(m, t, lf)
             IN  IF sign > 0 THEN TRUE
                 ELSE IF sign < 0 THEN FALSE
                 ELSE IF tet_is_in_list(m, t2) THEN TRUE
                 ELSE IF tet_is_marked(m, t2) THEN FALSE
                 ELSE tet_is_conflict(m, t2, pv)
        ELSE IF weighted_
        THEN orient_3dlifted_SOS(P(0), P(1), P(2), P(3), p,
                 height(finite_tet_vertex(m, t, 0)), height(finite_tet_vertex(m, t, 1)),
                 height(finite_tet_vertex(m, t, 2)), height(finite_tet_vertex(m, t, 3)),
                 height(pv)) > 0
        ELSE in_sphere_3d_SOS(P(0), P(1), P(2), P(3), p) > 0

(***************************************************************************)
(* Point location                                                          *)
(***************************************************************************)
\* result of a walk that used up the fuel MaxWalk of the model
WALK_DIVERGED == -9

\* result of a call that never returns
NEVER_RETURNS == -12

\* the cells a random hint can be: hint = random_int32() % max_t(), drawn again
\* while the cell is free
RandomHints(m) == {t \in 0..(max_t(m) - 1) : ~tet_is_free(m, t)}

\* hint after the loop "while(hint == NO_TETRAHEDRON)": the loop has no end
\* when every cell is free
DrawHint(m) == IF RandomHints(m) = {} THEN {NEVER_RETURNS} ELSE RandomHints(m)

\* "always start from a real tet": the neighbor opposite to the infinite vertex
RealStart(m, h) ==
    IF tet_is_virtual(m, h)
    THEN LET inf == {lf \in 0..3 : tet_vertex(m, h, lf) = VERTEX_AT_INFINITY}
         IN  tet_adjacent(m, h, CHOOSE x \in inf : \A y \in inf : x <= y)
    ELSE h

\* pv[0..3] of a cell
CellPoints(m, t) ==
    <<vertex_ptr(finite_tet_vertex(m, t, 0)), vertex_ptr(finite_tet_vertex(m, t, 1)),
      vertex_ptr(finite_tet_vertex(m, t, 2)), vertex_ptr(finite_tet_vertex(m, t, 3))>>

\* --max_iter on the 32 bit unsigned counter (read as a signed word)
DecIter(x) == IF x = NOT_IN_LIST_BIT THEN END_OF_LIST ELSE x - 1

\* the for loop of locate_inexact from facet f on, in cell t with the points pv
RECURSIVE inexact_walk(_, _, _, _, _, _, _, _)
inexact_walk(m, p, t, t_pred, pv, f, max_iter, fuel) ==
    IF f = 4 THEN t
    ELSE
    LET s_t_next == tet_adjacent(m, t, f)
        pvp == Put(pv, f, p)
        ori == orient_3d_inexact(pvp[1], pvp[2], pvp[3], pvp[4])
        left == DecIter(max_iter)
    IN  IF s_t_next = -1 THEN NO_TETRAHEDRON
        ELSE IF s_t_next = t_pred
        THEN inexact_walk(m, p, t, t_pred, pv, f + 1, max_iter, fuel)
        ELSE IF ori # NEGATIVE
        THEN inexact_walk(m, p, t, t_pred, pv, f + 1, max_iter, fuel)
        ELSE IF tet_is_virtual(m, s_t_next) THEN s_t_next
        ELSE IF fuel = 0 THEN WALK_DIVERGED
        ELSE IF left # 0
        THEN inexact_walk(m, p, s_t_next, t, CellPoints(m, s_t_next), 0, left, fuel - 1)
        ELSE inexact_walk(m, p, s_t_next, t, pvp, f + 1, left, fuel - 1)

\* locate_inexact for a hint that names a cell
locate_inexact_from(m, p, h, max_iter) ==
    IF h = NEVER_RETURNS THEN NEVER_RETURNS
    ELSE inexact_walk(m, p, RealStart(m, h), NO_TETRAHEDRON,
                      CellPoints(m, RealStart(m, h)), 0, max_iter, MaxWalk)

\* every value locate_inexact can return (one per random hint when none is given)
locate_inexact(m, p, h, max_iter) ==
    IF h = NO_TETRAHEDRON
    THEN {locate_inexact_from(m, p, r, max_iter) : r \in DrawHint(m)}
    ELSE {locate_inexact_from(m, p, h, max_iter)}

\* orient_3d of the points pv with pv[f] replaced by p
OrientFacet(pv, f, p) ==
    orient_3d(At(Put(pv, f, p), 0), At(Put(pv, f, p), 1),
              At(Put(pv, f, p), 2), At(Put(pv, f, p), 3))

\* one pass of the for loop of locate over the facets (f0 + df) % 4 of cell t
RECURSIVE exact_scan(_, _, _, _, _, _, _), ScanFacet(_, _, _, _, _, _, _, _, _, _)
exact_scan(m, p, t, t_pred, orient, f0, df) ==
    IF df = 4 THEN [kind |-> "ret", t |-> t, t_pred |-> t_pred, orient |-> orient]
    ELSE ScanFacet(m, p, t, t_pred, orient, f0, df, (f0 + df) % 4,
                   tet_adjacent(m, t, (f0 + df) % 4),
                   OrientFacet(CellPoints(m, t), (f0 + df) % 4, p))

\* variant of ScanFacet: a slot that holds -1 ends the walk in cell t itself
ScanFacetBorderFound(m, p, t, t_pred, orient, f0, df, f, s_t_next, o) ==
    IF s_t_next = -1
    THEN [kind |-> "ret", t |-> t, t_pred |-> t_pred, orient |-> orient]
    ELSE IF s_t_next = t_pred
    THEN exact_scan(m, p, t, t_pred, Put(orient, f, POSITIVE), f0, df + 1)
    ELSE IF o # NEGATIVE
    THEN exact_scan(m, p, t, t_pred, Put(orient, f, o), f0, df + 1)
    ELSE IF tet_is_virtual(m, s_t_next)
    THEN [kind |-> "ret", t |-> s_t_next, t_pred |-> t_pred,
          orient |-> <<POSITIVE, POSITIVE, POSITIVE, POSITIVE>>]
    ELSE [kind |-> "move", t |-> s_t_next, t_pred |-> t, orient |-> Put(orient, f, o)]

\* variant of ScanFacet: the signs found so far are reported with a virtual cell
ScanFacetVirtualKeepsSigns(m, p, t, t_pred, orient, f0, df, f, s_t_next, o) ==
    IF s_t_next = -1
    THEN [kind |-> "ret", t |-> NO_TETRAHEDRON, t_pred |-> t_pred, orient |-> orient]
    ELSE IF s_t_next = t_pred
    THEN exact_scan(m, p, t, t_pred, Put(orient, f, POSITIVE), f0, df + 1)
    ELSE IF o # NEGATIVE
    THEN exact_scan(m, p, t, t_pred, Put(orient, f, o), f0, df + 1)
    ELSE IF tet_is_virtual(m, s_t_next)
    THEN [kind |-> "ret", t |-> s_t_next, t_pred |-> t_pred, orient |-> Put(orient, f, o)]
    ELSE [kind |-> "move", t |-> s_t_next, t_pred |-> t, orient |-> Put(orient, f, o)]

\* the body of that loop for facet f, s_t_next its neighbor, o its orientation
ScanFacet(m, p, t, t_pred, orient, f0, df, f, s_t_next, o) ==
    IF s_t_next = -1
    THEN [kind |-> "ret", t |-> NO_TETRAHEDRON, t_pred |-> t_pred, orient |-> orient]
    ELSE IF s_t_next = t_pred
    THEN exact_scan(m, p, t, t_pred, Put(orient, f, POSITIVE), f0, df + 1)
    ELSE IF o # NEGATIVE
    THEN exact_scan(m, p, t, t_pred, Put(orient, f, o), f0, df + 1)
    ELSE IF tet_is_virtual(m, s_t_next)
    THEN [kind |-> "ret", t |-> s_t_next, t_pred |-> t_pred,
          orient |-> <<POSITIVE, POSITIVE, POSITIVE, POSITIVE>>]
    ELSE [kind |-> "move", t |-> s_t_next, t_pred |-> t, orient |-> Put(orient, f, o)]

\* the walk of locate from cell t: every outcome over the random facets f0
RECURSIVE exact_walk(_, _, _, _, _, _), WalkOn(_, _, _, _)
exact_walk(m, p, t, t_pred, orient, fuel) ==
    UNION {WalkOn(m, p, exact_scan(m, p, t, t_pred, orient, f0, 0), fuel) : f0 \in 0..3}

\* what follows the scan r of one cell: the return, or the walk from the next cell
WalkOn(m, p, r, fuel) ==
    IF r.kind = "ret" THEN {[t |-> r.t, orient |-> r.orient]}
    ELSE IF fuel = 0 THEN {[t |-> WALK_DIVERGED, orient |-> r.orient]}
    ELSE exact_walk(m, p, r.t, r.t_pred, r.orient, fuel - 1)

\* locate from line 591 on, hint being h
locate_from(m, p, h) ==
    IF h \in {NEVER_RETURNS, WALK_DIVERGED}
    THEN {[t |-> h, orient |-> <<UNINIT, UNINIT, UNINIT, UNINIT>>]}
    ELSE exact_walk(m, p, RealStart(m, h), NO_TETRAHEDRON,
                    <<UNINIT, UNINIT, UNINIT, UNINIT>>, MaxWalk)

\* locate(p, hint, thread_safe, orient): every <<cell, orientations>> it can return
locate(m, p, h) ==
    UNION {
        UNION {locate_from(m, p, h2) :
                  h2 \in IF h1 = NO_TETRAHEDRON THEN DrawHint(m) ELSE {h1}}
        : h1 \in locate_inexact(m, p, h, 2500) }

(***************************************************************************)
(* Conflict zone.  A zone is [m, t_bndry, f_bndry, first, last].           *)
(***************************************************************************)
ListAdd(z, t) ==
    LET a == add_tet_to_list(z.m, t, z.first, z.last)
    IN  [z EXCEPT !.m = a.m, !.first = a.first, !.last = a.last]

\* the for loop of find_conflict_zone_recursive over the facets lf..3 of t
RECURSIVE find_conflict_zone_recursive(_, _, _, _)
\* variant of find_conflict_zone_recursive: the cell kept as t_bndry is the
\* neighbor that is not in conflict
find_conflict_zone_recursiveOutside(z, pv, t, lf) ==
    IF lf = 4 THEN z
    ELSE
    LET t2 == tet_adjacent(z.m, t, lf)
    IN  IF tet_is_in_list(z.m, t2) \/ tet_is_marked(z.m, t2)
        THEN find_conflict_zone_recursive(z, pv, t, lf + 1)
        ELSE IF tet_is_conflict(z.m, t2, pv)
        THEN find_conflict_zone_recursive(
                 find_conflict_zone_recursive(ListAdd(z, t2), pv, t2, 0), pv, t, lf + 1)
        ELSE find_conflict_zone_recursive(
                 [z EXCEPT !.t_bndry = t2, !.f_bndry = lf, !.m = mark_tet(z.m, t2)],
                 pv, t, lf + 1)

find_conflict_zone_recursive(z, pv, t, lf) ==
    IF lf = 4 THEN z
    ELSE
    LET t2 == tet_adjacent(z.m, t, lf)
    IN  IF tet_is_in_list(z.m, t2) \/ tet_is_marked(z.m, t2)
        THEN find_conflict_zone_recursive(z, pv, t, lf + 1)
        ELSE IF tet_is_conflict(z.m, t2, pv)
        THEN find_conflict_zone_recursive(
                 find_conflict_zone_recursive(ListAdd(z, t2), pv, t2, 0), pv, t, lf + 1)
        ELSE find_conflict_zone_recursive(
                 [z EXCEPT !.t_bndry = t, !.f_bndry = lf, !.m = mark_tet(z.m, t2)],
                 pv, t, lf + 1)

\* variant of SeedAdd: the neighbors across the POSITIVE facets are chained
RECURSIVE SeedAddPositive(_, _, _, _)
SeedAddPositive(z, t, orient, lf) ==
    IF lf = 4 THEN z
    ELSE IF At(orient, lf) = POSITIVE
    THEN SeedAddPositive(ListAdd(z, tet_adjacent(z.m, t, lf)), t, orient, lf + 1)
    ELSE SeedAddPositive(z, t, orient, lf + 1)

\* first loop over the ZERO facets: chain the neighbors
RECURSIVE SeedAdd(_, _, _, _)
SeedAdd(z, t, orient, lf) ==
    IF lf = 4 THEN z
    ELSE IF At(orient, lf) = ZERO
    THEN SeedAdd(ListAdd(z, tet_adjacent(z.m, t, lf)), t, orient, lf + 1)
    ELSE SeedAdd(z, t, orient, lf + 1)

\* second loop over the ZERO facets: flood fill from the neighbors
RECURSIVE SeedFill(_, _, _, _, _)
SeedFill(z, pv, t, orient, lf) ==
    IF lf = 4 THEN z
    ELSE IF At(orient, lf) = ZERO
    THEN SeedFill(find_conflict_zone_recursive(z, pv, tet_adjacent(z.m, t, lf), 0),
                  pv, t, orient, lf + 1)
    ELSE SeedFill(z, pv, t, orient, lf + 1)

\* mutant of nb_zero: the count is one too large
nb_zeroOffByOne(orient) == Cardinality({lf \in 0..3 : At(orient, lf) = ZERO}) + 1

nb_zero(orient) == Cardinality({lf \in 0..3 : At(orient, lf) = ZERO})

\* mutant of find_conflict_zone: no return for a point that already exists
find_conflict_zoneNoDuplicateTest(m, v, t, orient, t_bndry, f_bndry) ==
    LET z0 == [m |-> set_tet_mark_stamp(m, v), t_bndry |-> t_bndry,
               f_bndry |-> f_bndry, first |-> END_OF_LIST, last |-> END_OF_LIST]
        z1 == ListAdd(z0, t)
        z2 == IF ~weighted_ /\ nb_zero(orient) # 0
              THEN SeedFill(SeedAdd(z1, t, orient, 0), v, t, orient, 0)
              ELSE z1
    IN  IF weighted_ /\ ~tet_is_conflict(z0.m, t, v) THEN z0
        ELSE find_conflict_zone_recursive(z2, v, t, 0)

\* variant of find_conflict_zone: no return for a vertex that is not in
\* conflict with the cell it was located in
find_conflict_zoneNoDanglingTest(m, v, t, orient, t_bndry, f_bndry) ==
    LET z0 == [m |-> set_tet_mark_stamp(m, v), t_bndry |-> t_bndry,
               f_bndry |-> f_bndry, first |-> END_OF_LIST, last |-> END_OF_LIST]
        z1 == ListAdd(z0, t)
        z2 == IF ~weighted_ /\ nb_zero(orient) # 0
              THEN SeedFill(SeedAdd(z1, t, orient, 0), v, t, orient, 0)
              ELSE z1
    IN  IF nb_zero(orient) >= 3 THEN z0
        ELSE find_conflict_zone_recursive(z2, v, t, 0)

find_conflict_zone(m, v, t, orient, t_bndry, f_bndry) ==
    LET z0 == [m |-> set_tet_mark_stamp(m, v), t_bndry |-> t_bndry,
               f_bndry |-> f_bndry, first |-> END_OF_LIST, last |-> END_OF_LIST]
        z1 == ListAdd(z0, t)
        z2 == IF ~weighted_ /\ nb_zero(orient) # 0
              THEN SeedFill(SeedAdd(z1, t, orient, 0), v, t, orient, 0)
              ELSE z1
    IN  IF nb_zero(orient) >= 3 THEN z0
        ELSE IF weighted_ /\ ~tet_is_conflict(z0.m, t, v) THEN z0
        ELSE find_conflict_zone_recursive(z2, v, t, 0)

(***************************************************************************)
(* Stellation                                                              *)
(***************************************************************************)
\* "turn around edge [ev1,ev2] inside the conflict zone": <<cur_t, cur_f, next_t>>
RECURSIVE TurnAroundEdge(_, _, _, _, _, _)
TurnAroundEdge(m, cur_t, cur_f, next_t, ev1, ev2) ==
    IF tet_is_in_list(m, next_t)
    THEN LET f == get_facet_by_halfedge(m, next_t, ev1, ev2)
         IN  TurnAroundEdge(m, next_t, f, tet_adjacent(m, next_t, f), ev1, ev2)
    ELSE <<cur_t, cur_f, next_t>>

\* new_t is linked to the neighbor t2 of t1 across f1, and t2 back to new_t
LinkHeadTo(m, t1, t2, new_t) ==
    [m |-> set_tet_adjacent(m, t2, find_tet_adjacent(m, t2, t1), new_t), t |-> new_t]

\* mutant of LinkHead: new_t is linked to itself across f1
LinkHeadSelf(m, t1, f1, new_t) ==
    LinkHeadTo(set_tet_adjacent(m, new_t, f1, new_t), t1, tet_adjacent(m, t1, f1), new_t)

\* lines 826-833
LinkHead(m, t1, f1, new_t) ==
    LinkHeadTo(set_tet_adjacent(m, new_t, f1, tet_adjacent(m, t1, f1)),
               t1, tet_adjacent(m, t1, f1), new_t)

\* variant of HeadOf: the copy keeps the vertex f1 of t1
HeadOfKeepsVertex(n, v, t1, f1) == LinkHead(n.m, t1, f1, n.t)

\* the copy n.t of t1 gets v in place of its vertex f1
HeadOf(n, v, t1, f1) == LinkHead(set_tet_vertex(n.m, n.t, f1, v), t1, f1, n.t)

\* creation of new_t and its link across f1 (lines 819-833)
StellateHead(m, v, t1, f1) ==
    HeadOf(new_tetrahedron(m, tet_vertex(m, t1, 0), tet_vertex(m, t1, 1),
                           tet_vertex(m, t1, 2), tet_vertex(m, t1, 3)),
           v, t1, f1)

\* <<cur_t, cur_f, next_t, f12, f21>> once the walk w around the edge has ended
WithFacets(m, w, ev1, ev2) == w \o get_facets_by_halfedge(m, w[3], ev1, ev2)

\* the walk around the edge of t1 shared by its facets new_f and f1
AroundEdge(m, t1, new_f, ev1, ev2) ==
    WithFacets(m, TurnAroundEdge(m, t1, new_f, tet_adjacent(m, t1, new_f), ev1, ev2),
               ev1, ev2)

\* mutant of LinkNeighbor: the neighbor is not linked back to new_t
LinkNeighborOneWay(r, v_neigh_index, new_t, new_f) ==
    set_tet_adjacent(r.m, new_t, new_f, r.t)

\* variant of LinkNeighbor: the neighbor is linked back across its next facet
LinkNeighborNextFacet(r, v_neigh_index, new_t, new_f) ==
    set_tet_adjacent(set_tet_adjacent(r.m, r.t, (v_neigh_index + 1) % 4, new_t),
                     new_t, new_f, r.t)

\* lines 887-888: the neighbor r.t and new_t are linked to each other
LinkNeighbor(r, v_neigh_index, new_t, new_f) ==
    set_tet_adjacent(set_tet_adjacent(r.m, r.t, v_neigh_index, new_t), new_t, new_f, r.t)

\* what the three geo_debug_asserts of lines 813-815 test, with the arguments
\* of the invocation: t1 is in the list, it has a neighbor across f1, and this
\* neighbor is not in the list
Invoked(m, t1, f1, prev_f) ==
    [m EXCEPT !.calls =
        Append(m.calls,
               [t1 |-> t1, f1 |-> f1, prev_f |-> prev_f,
                t1_in_list |-> t1 \in 0..(max_t(m) - 1) /\ tet_is_in_list(m, t1),
                adjacent |-> IF t1 \in 0..(max_t(m) - 1) /\ f1 \in 0..3
                             THEN tet_adjacent(m, t1, f1) ELSE UNINIT,
                adjacent_in_list |->
                    /\ t1 \in 0..(max_t(m) - 1) /\ f1 \in 0..3
                    /\ tet_adjacent(m, t1, f1) >= 0
                    /\ tet_is_in_list(m, tet_adjacent(m, t1, f1))])]

\* stellate_conflict_zone(v, t1, f1, prev_f) gives [m, t]: the store and new_t;
\* StellateFacets is its for loop over the facets new_f..3 of new_t
RECURSIVE stellate_conflict_zone(_, _, _, _, _), StellateFacets(_, _, _, _, _, _, _),
          StellateHeadFacets(_, _, _, _, _), StellateNeighbor(_, _, _, _, _, _),
          StellateFacet(_, _, _, _, _, _, _, _)
stellate_conflict_zone(m, v, t1, f1, prev_f) ==
    StellateHeadFacets(StellateHead(Invoked(m, t1, f1, prev_f), v, t1, f1),
                       v, t1, f1, prev_f)

StellateHeadFacets(h, v, t1, f1, prev_f) == StellateFacets(h.m, v, t1, f1, prev_f, h.t, 0)

StellateFacets(m, v, t1, f1, prev_f, new_t, new_f) ==
    IF new_f = 4 THEN [m |-> m, t |-> new_t]
    ELSE IF new_f = prev_f \/ tet_adjacent(m, new_t, new_f) # -1
    THEN StellateFacets(m, v, t1, f1, prev_f, new_t, new_f + 1)
    ELSE StellateFacet(m, v, t1, f1, prev_f, new_t, new_f,
             AroundEdge(m, t1, new_f,
                        tet_vertex(m, t1, At(At(halfedge_facet_, new_f), f1)),
                        tet_vertex(m, t1, At(At(halfedge_facet_, f1), new_f))))

\* variant of StellateNeighbor: no recursive call, the neighbor is the cell
\* that the walk around the edge found
StellateNeighborFound(m, v, t_neigh, cur_t, cur_f, v_neigh_index) ==
    [m |-> m, t |-> t_neigh]

\* the neighbor of new_t across new_f: [m, t], a cell that exists or a new one
StellateNeighbor(m, v, t_neigh, cur_t, cur_f, v_neigh_index) ==
    IF t_neigh = cur_t
    THEN stellate_conflict_zone(m, v, t_neigh, cur_f, v_neigh_index)
    ELSE [m |-> m, t |-> t_neigh]

\* lines 862-888 for the facet new_f, e being <<cur_t, cur_f, next_t, f12, f21>>
StellateFacet(m, v, t1, f1, prev_f, new_t, new_f, e) ==
    LET cur_t == e[1]
        cur_f == e[2]
        next_t == e[3]
        f12 == e[4]
        f21 == e[5]
        t_neigh == tet_adjacent(m, next_t, f21)
        v_neigh_opposite == tet_vertex(m, next_t, f12)
        v_neigh_index == find_tet_vertex(m, t_neigh, v_neigh_opposite)
    IN  StellateFacets(
            LinkNeighbor(StellateNeighbor(m, v, t_neigh, cur_t, cur_f, v_neigh_index),
                         v_neigh_index, new_t, new_f),
            v, t1, f1, prev_f, new_t, new_f + 1)

(***************************************************************************)
(* insert(v, hint)                                                         *)
(***************************************************************************)
\* the cells of the list that starts at first, in list order
RECURSIVE ListCells(_, _)
ListCells(m, first) ==
    IF first = END_OF_LIST THEN <<>>
    ELSE <<first>> \o ListCells(m, tet_next(m, first))

\* variant of Recycle: the cells that were free are not chained after the zone
RecycleZoneOnly(m, first_conflict, last_conflict) ==
    [m EXCEPT !.first_free = first_conflict]

\* "recycle the tetrahedra of the conflict zone" (lines 916-918)
Recycle(m, first_conflict, last_conflict) ==
    [m EXCEPT !.next = Put(m.next, last_conflict, m.first_free),
              !.first_free = first_conflict]

\* what insert did: the vertex, what locate gave, the conflict zone found
Did(v, loc, z, conflict) ==
    [v |-> v, t |-> loc.t, orient |-> loc.orient, conflict |-> conflict,
     t_bndry |-> z.t_bndry, f_bndry |-> z.f_bndry]

\* variant of InsertStellated: insert returns the first cell of the conflict list
InsertStellatedReturnsConflict(v, loc, z, st) ==
    [m |-> Recycle(st.m, z.first, z.last), ret |-> z.first,
     did |-> Did(v, loc, z, ListCells(z.m, z.first))]

\* lines 911-921: st is the result of the stellation of the zone z
InsertStellated(v, loc, z, st) ==
    [m |-> Recycle(st.m, z.first, z.last), ret |-> st.t,
     did |-> Did(v, loc, z, ListCells(z.m, z.first))]

\* lines 903-921: z is the conflict zone of v
InsertZone(v, loc, z) ==
    IF z.first = END_OF_LIST
    THEN [m |-> z.m, ret |-> NO_TETRAHEDRON, did |-> Did(v, loc, z, <<>>)]
    ELSE InsertStellated(v, loc, z,
                         stellate_conflict_zone(z.m, v, z.t_bndry, z.f_bndry, -1))

\* insert once locate has returned loc = [t, orient]: the store, the value
\* returned and what was done
InsertAt(m, v, loc) ==
    InsertZone(v, loc, find_conflict_zone(m, v, loc.t, loc.orient, UNINIT, UNINIT))

\* every outcome of insert(v, hint), one per outcome of locate
insert(m, v, h) == {InsertAt(m, v, loc) : loc \in locate(m, vertex_ptr(v), h)}

(***************************************************************************)
(* create_first_tetrahedron                                                *)
(***************************************************************************)
RECURSIVE ScanIdentical(_, _)
ScanIdentical(iv0, iv1) ==
    IF iv1 < nb_vertices /\ points_are_identical(vertex_ptr(iv0), vertex_ptr(iv1))
    THEN ScanIdentical(iv0, iv1 + 1)
    ELSE iv1

\* variant of ScanColinear: the vertex after iv1 is taken
ScanColinearNext(iv0, iv1, iv2) == iv2

RECURSIVE ScanColinear(_, _, _)
ScanColinear(iv0, iv1, iv2) ==
    IF iv2 < nb_vertices
       /\ points_are_colinear(vertex_ptr(iv0), vertex_ptr(iv1), vertex_ptr(iv2))
    THEN ScanColinear(iv0, iv1, iv2 + 1)
    ELSE iv2

\* variant of ScanCoplanar: the vertex after iv2 is taken
ScanCoplanarNext(iv0, iv1, iv2, iv3) == iv3

RECURSIVE ScanCoplanar(_, _, _, _)
ScanCoplanar(iv0, iv1, iv2, iv3) ==
    IF iv3 < nb_vertices
       /\ orient_3d(vertex_ptr(iv0), vertex_ptr(iv1), vertex_ptr(iv2), vertex_ptr(iv3)) = ZERO
    THEN ScanCoplanar(iv0, iv1, iv2, iv3 + 1)
    ELSE iv3

\* [m, t0, t]: the store, the first cell and its virtual neighbors made so far
FirstReal(n) == [m |-> n.m, t0 |-> n.t, t |-> <<>>]

AddCell(s, n) == [s EXCEPT !.m = n.m, !.t = Append(s.t, n.t)]

\* mutant of AddVirtual: a virtual cell takes its vertices from the cell
\* created just before it
AddVirtualFromLast(s, f) ==
    AddCell(s, new_tetrahedron(s.m, VERTEX_AT_INFINITY,
                tet_vertex(s.m, max_t(s.m) - 1, tet_facet_vertex(f, 2)),
                tet_vertex(s.m, max_t(s.m) - 1, tet_facet_vertex(f, 1)),
                tet_vertex(s.m, max_t(s.m) - 1, tet_facet_vertex(f, 0))))

\* the virtual cell t[f] on facet f of t0
AddVirtual(s, f) ==
    AddCell(s, new_tetrahedron(s.m, VERTEX_AT_INFINITY,
                tet_vertex(s.m, s.t0, tet_facet_vertex(f, 2)),
                tet_vertex(s.m, s.t0, tet_facet_vertex(f, 1)),
                tet_vertex(s.m, s.t0, tet_facet_vertex(f, 0))))

\* t[f] and t0 are linked to each other
LinkReal(s, f) ==
    [s EXCEPT !.m = set_tet_adjacent(set_tet_adjacent(s.m, At(s.t, f), 0, s.t0),
                                     s.t0, f, At(s.t, f))]

\* mutant of LinkVirtual: the three links are not taken in reverse order
LinkVirtualForward(s, f) ==
    [s EXCEPT !.m =
        set_tet_adjacent(
            set_tet_adjacent(
                set_tet_adjacent(s.m, At(s.t, f), 1, At(s.t, tet_facet_vertex(f, 0))),
                At(s.t, f), 2, At(s.t, tet_facet_vertex(f, 1))),
            At(s.t, f), 3, At(s.t, tet_facet_vertex(f, 2)))]

\* t[f] is linked to the three other virtual cells
LinkVirtual(s, f) ==
    [s EXCEPT !.m =
        set_tet_adjacent(
            set_tet_adjacent(
                set_tet_adjacent(s.m, At(s.t, f), 1, At(s.t, tet_facet_vertex(f, 2))),
                At(s.t, f), 2, At(s.t, tet_facet_vertex(f, 1))),
            At(s.t, f), 3, At(s.t, tet_facet_vertex(f, 0)))]

\* the cells of the first tetrahedron and of its four virtual neighbors
FirstCells(m, iv0, iv1, iv2, iv3) ==
    LinkVirtual(LinkVirtual(LinkVirtual(LinkVirtual(
        LinkReal(LinkReal(LinkReal(LinkReal(
            AddVirtual(AddVirtual(AddVirtual(AddVirtual(
                FirstReal(new_tetrahedron(m, iv0, iv1, iv2, iv3)),
                0), 1), 2), 3),
            0), 1), 2), 3),
        0), 1), 2), 3).m

\* "return false": no four vertices that span the space
FirstNone(m) == [ok |-> FALSE, m |-> m, iv |-> <<UNINIT, UNINIT, UNINIT, UNINIT>>]

FirstFound(m, iv0, iv1, iv2, iv3) ==
    [ok |-> TRUE, m |-> FirstCells(m, iv0, iv1, iv2, iv3), iv |-> <<iv0, iv1, iv2, iv3>>]

\* variant of FirstWith3: iv2 and iv3 are never swapped
FirstWith3NoSwap(m, iv0, iv1, iv2, iv3) ==
    IF iv3 = nb_vertices THEN FirstNone(m)
    ELSE FirstFound(m, iv0, iv1, iv2, iv3)

\* iv3 is known: iv2 and iv3 are swapped when the orientation is negative
FirstWith3(m, iv0, iv1, iv2, iv3) ==
    IF iv3 = nb_vertices THEN FirstNone(m)
    ELSE IF orient_3d(vertex_ptr(iv0), vertex_ptr(iv1), vertex_ptr(iv2), vertex_ptr(iv3))
            = NEGATIVE
    THEN FirstFound(m, iv0, iv1, iv3, iv2)
    ELSE FirstFound(m, iv0, iv1, iv2, iv3)

FirstWith2(m, iv0, iv1, iv2) ==
    IF iv2 = nb_vertices THEN FirstNone(m)
    ELSE FirstWith3(m, iv0, iv1, iv2, ScanCoplanar(iv0, iv1, iv2, iv2 + 1))

FirstWith1(m, iv0, iv1) ==
    IF iv1 = nb_vertices THEN FirstNone(m)
    ELSE FirstWith2(m, iv0, iv1, ScanColinear(iv0, iv1, iv1 + 1))

\* [ok, m, iv]: the return value, the store and <<iv0, iv1, iv2, iv3>>
create_first_tetrahedron(m) ==
    IF nb_vertices < 4 THEN FirstNone(m)
    ELSE FirstWith1(m, 0, ScanIdentical(0, 1))

(***************************************************************************)
(* Compaction (set_vertices, lines 302-391)                                *)
(***************************************************************************)
\* mutant of CopyCell: nothing is copied
CopyCellNothing(a, d, t) == a

\* copy of the four slots of cell t onto cell d in a flat array
CopyCell(a, d, t) ==
    Flat([k \in 1..Len(a) |->
            IF k > 4 * d /\ k <= 4 * d + 4 THEN a[k - 4 * d + 4 * t] ELSE a[k]])

\* the loop over t (lines 307-330); old2new is cell_next_; gives [m, nb_tets]
RECURSIVE CompressLoop(_, _, _)
CompressLoop(m, t, nb_tets) ==
    IF t >= max_t(m) THEN [m |-> m, nb_tets |-> nb_tets]
    ELSE IF (keep_infinite_ /\ ~tet_is_free(m, t)) \/ tet_is_real(m, t)
    THEN CompressLoop(
             [m EXCEPT !.cv = IF t # nb_tets THEN CopyCell(m.cv, nb_tets, t) ELSE m.cv,
                       !.cc = IF t # nb_tets THEN CopyCell(m.cc, nb_tets, t) ELSE m.cc,
                       !.next = Put(m.next, t, nb_tets)],
             t + 1, nb_tets + 1)
    ELSE CompressLoop([m EXCEPT !.next = Put(m.next, t, -1)], t + 1, nb_tets)

\* variant of Remap: the neighbor slots keep the old indices
RemapNothing(m) == m

\* cell_to_cell_store_[i] = old2new[cell_to_cell_store_[i]] for every slot
Remap(m) == [m EXCEPT !.cc = Flat([i \in 1..Len(m.cc) |-> At(m.next, m.cc[i])])]

\* lines 307-343
Shrink(c) ==
    [m |-> Remap([c.m EXCEPT !.cv = SubSeq(c.m.cv, 1, 4 * c.nb_tets),
                             !.cc = SubSeq(c.m.cc, 1, 4 * c.nb_tets)]),
     nb_tets |-> c.nb_tets]

Compress(m) == Shrink(CompressLoop(m, 0, 0))

RECURSIVE SkipFinite(_, _, _)
SkipFinite(m, finite_ptr, nb_finite) ==
    IF tet_is_finite(m, finite_ptr)
    THEN SkipFinite([m EXCEPT !.next = Put(m.next, finite_ptr, finite_ptr)],
                    finite_ptr + 1, nb_finite + 1)
    ELSE [m |-> m, ptr |-> finite_ptr, nb |-> nb_finite]

RECURSIVE SkipInfinite(_, _)
SkipInfinite(m, infinite_ptr) ==
    IF ~tet_is_finite(m, infinite_ptr)
    THEN SkipInfinite([m EXCEPT !.next = Put(m.next, infinite_ptr, infinite_ptr)],
                      infinite_ptr - 1)
    ELSE [m |-> m, ptr |-> infinite_ptr]

\* variant of SwapCells: the four slots of cell t are copied onto cell s
SwapCellsOneWay(a, s, t) ==
    Flat([k \in 1..Len(a) |->
            IF k > 4 * s /\ k <= 4 * s + 4 THEN a[k - 4 * s + 4 * t] ELSE a[k]])

\* geo_swap of the four slots of two cells in a flat array
SwapCells(a, s, t) ==
    Flat([k \in 1..Len(a) |->
            IF k > 4 * s /\ k <= 4 * s + 4 THEN a[k - 4 * s + 4 * t]
            ELSE IF k > 4 * t /\ k <= 4 * t + 4 THEN a[k - 4 * t + 4 * s]
            ELSE a[k]])

\* the for(;;) loop of lines 353-383; gives [m, nb]: the store and nb_finite_cells_
RECURSIVE PartitionLoop(_, _, _, _), PartitionSwap(_, _), PartitionFrom(_, _)
PartitionLoop(m, finite_ptr, infinite_ptr, nb_finite) ==
    PartitionFrom(SkipFinite(m, finite_ptr, nb_finite), infinite_ptr)

\* a is where the scan for an infinite cell stopped
PartitionFrom(a, infinite_ptr) == PartitionSwap(a, SkipInfinite(a.m, infinite_ptr))

\* b is where the scan for a finite cell stopped: the end, or the swap of the two
PartitionSwap(a, b) ==
    IF a.ptr > b.ptr THEN [m |-> b.m, nb |-> a.nb]
    ELSE PartitionLoop(
             [b.m EXCEPT !.next = Put(Put(b.m.next, a.ptr, b.ptr), b.ptr, a.ptr),
                         !.cc = SwapCells(b.m.cc, a.ptr, b.ptr),
                         !.cv = SwapCells(b.m.cv, a.ptr, b.ptr)],
             a.ptr + 1, b.ptr - 1, a.nb + 1)

\* lines 349-391
RemapPartition(q) == [m |-> Remap(q.m), nb |-> q.nb]

Partition(m, nb_tets) == RemapPartition(PartitionLoop(m, 0, nb_tets - 1, 0))

(***************************************************************************)
(* set_vertices                                                            *)
(***************************************************************************)
\* the entries (indices) of S in increasing order
RECURSIVE Ascending(_)
Ascending(S) ==
    IF S = {} THEN <<>>
    ELSE LET k == CHOOSE x \in S : \A y \in S : x <= y
         IN  <<k>> \o Ascending(S \ {k})

Reverse(q) == Flat([i \in 1..Len(q) |-> q[Len(q) + 1 - i]])

\* q with its first entry moved to the end
Rotate(q) == IF Len(q) < 2 THEN q ELSE SubSeq(q, 2, Len(q)) \o SubSeq(q, 1, 1)

\* the inputs: at most MaxN distinct entries of the pool, in pool order, in
\* the opposite order, or rotated
Inputs ==
    UNION {{Ascending(S), Reverse(Ascending(S)), Rotate(Ascending(S))} :
              S \in {T \in SUBSET (1..Len(Pool)) : Cardinality(T) <= MaxN}}

\* the inputs of the calls on an object that serves several calls
ReuseInputs ==
    {Ascending(S) : S \in {T \in SUBSET (1..5) : Cardinality(T) <= MaxReuseN}}

\* coordinates as the caller lays them out: 3 per point, or 4 when weighted
Coords(q, w) ==
    Flat([i \in 1..Len(q) |->
            IF w THEN AllPoints[q[i]]
            ELSE <<AllPoints[q[i]][1], AllPoints[q[i]][2], AllPoints[q[i]][3], 0>>])

\* lines 204-220
Heights(vs) == Flat([i \in 1..Len(vs) |-> geo_sqr(vs[i][4]) + SqNorm(vs[i])])

\* result of compute_BRIO_order: some permutation; here the reversal or the
\* rotation by one of the identity
BRIO_orders(n) ==
    {Flat([i \in 1..n |-> n - i]), Flat([i \in 1..n |-> i % n])}

Identity(n) == Flat([i \in 1..n |-> i - 1])

\* last_insert when the call has made no insert yet
NoInsert ==
    [v |-> -1, t |-> NO_TETRAHEDRON, orient |-> <<>>, conflict |-> <<>>,
     t_bndry |-> UNINIT, f_bndry |-> UNINIT, ret |-> NO_TETRAHEDRON]

\* threads when no thread runs a query: the spinlock of locate (the static
\* variable lock of line 573) is free and there is no call
NoThreads == [lock |-> FALSE, call |-> <<>>]

\* query when no query has been made
NoQuery ==
    [op |-> "none", at |-> "none", p |-> <<>>, hint |-> NO_TETRAHEDRON,
     t |-> NO_TETRAHEDRON, orient |-> <<>>, v |-> -1]

TypeOK ==
    /\ weighted_ \in BOOLEAN
    /\ keep_infinite_ \in BOOLEAN
    /\ do_reorder_ \in BOOLEAN
    /\ pc \in {"idle", "first", "loop", "returned"}
    /\ Len(cell_to_v_store_) = Len(cell_to_cell_store_)
    /\ result \in {"none", "true", "false"}

Init ==
    /\ weighted_ \in BOOLEAN
    /\ keep_infinite_ \in BOOLEAN
    /\ do_reorder_ \in BOOLEAN
    /\ vertices = <<>>
    /\ heights_ = <<>>
    /\ reorder_ = <<>>
    /\ cell_to_v_store_ = <<>>
    /\ cell_to_cell_store_ = <<>>
    /\ cell_next_ = <<>>
    /\ first_free_ = END_OF_LIST
    /\ cur_stamp_ = 0
    /\ nb_cells_ = 0
    /\ nb_finite_cells_ = 0
    /\ pc = "idle"
    /\ loop_i = 0
    /\ hint = NO_TETRAHEDRON
    /\ first4 = <<>>
    /\ last_insert = NoInsert
    /\ cb_log = <<>>
    /\ result = "none"
    /\ nb_calls = 0
    /\ ctor = [class |-> "Delaunay3d", dimension |-> IF weighted_ THEN 4 ELSE 3,
               thrown |-> FALSE]
    /\ query = NoQuery
    /\ threads = NoThreads

SetStore(m) ==
    /\ cell_to_v_store_' = m.cv
    /\ cell_to_cell_store_' = m.cc
    /\ cell_next_' = m.next
    /\ first_free_' = m.first_free
    /\ cur_stamp_' = m.stamp

EmptyStore ==
    [cv |-> <<>>, cc |-> <<>>, next |-> <<>>, first_free |-> END_OF_LIST, stamp |-> 0,
     calls |-> <<>>, visits |-> <<>>]

\* mutant of ReturnFalse: a cancelled call returns true
ReturnFalseAsTrue ==
    /\ pc' = "returned"
    /\ result' = "true"

\* "return false" of a cancelled call (lines 245-246 and 267-268)
ReturnFalse ==
    /\ pc' = "returned"
    /\ result' = "false"

\* mutant of ReturnTrue: the call returns false
ReturnTrueAsFalse ==
    /\ pc' = "returned"
    /\ result' = "false"

\* "return true" (lines 261 and 410)
ReturnTrue ==
    /\ pc' = "returned"
    /\ result' = "true"

\* set_vertices up to create_first_tetrahedron (lines 199-246): reset, heights,
\* reorder, progressCallback(0,0)
Begin(q, order, go) ==
    /\ vertices' = Coords(q, weighted_)
    /\ heights_' = IF weighted_ THEN Heights(Coords(q, weighted_)) ELSE heights_
    /\ reorder_' = order
    /\ cb_log' = <<<<0, 0, go>>>>
    /\ last_insert' = NoInsert
    /\ loop_i' = 0
    /\ hint' = NO_TETRAHEDRON
    /\ first4' = <<>>
    /\ SetStore(EmptyStore)
    /\ IF go THEN pc' = "first" /\ result' = "none" ELSE ReturnFalse
    /\ nb_calls' = nb_calls + 1
    /\ UNCHANGED <<weighted_, keep_infinite_, do_reorder_, nb_cells_, nb_finite_cells_>>
    /\ UNCHANGED <<ctor, query, threads>>

\* the call of set_vertices on a new object
SetVertices ==
    /\ pc = "idle"
    /\ \E q \in Inputs, go \in BOOLEAN :
         \E order \in (IF do_reorder_ THEN BRIO_orders(Len(q)) ELSE {Identity(Len(q))}) :
            Begin(q, order, go)

\* a call of set_vertices on an object, new or not, no call being in progress
SetVerticesReuse ==
    /\ pc \in {"idle", "returned"}
    /\ nb_calls < MaxCalls
    /\ \E q \in ReuseInputs, go \in BOOLEAN :
         \E order \in (IF do_reorder_ THEN BRIO_orders(Len(q)) ELSE {Identity(Len(q))}) :
            Begin(q, order, go)

\* lines 256-264: the first tetrahedron, or the return for a degenerate input
FirstDone(c) ==
    /\ SetStore(c.m)
    /\ first4' = IF c.ok THEN c.iv ELSE first4
    /\ IF c.ok THEN pc' = "loop" /\ result' = "none" ELSE ReturnTrue

CreateFirst ==
    /\ pc = "first"
    /\ \E r \in {create_first_tetrahedron(Store)} : FirstDone(r)
    /\ UNCHANGED <<weighted_, keep_infinite_, do_reorder_, vertices, heights_, reorder_,
                   nb_cells_, nb_finite_cells_, loop_i, hint, last_insert, cb_log,
                   nb_calls, ctor, query, threads>>

\* variant of NextHint: the value returned by insert is the next hint
NextHintReturned(old_hint, new_hint) == new_hint

\* lines 272-275: the hint after insert returned new_hint
NextHint(old_hint, new_hint) ==
    IF new_hint # NO_TETRAHEDRON THEN new_hint ELSE old_hint

\* one round of the insertion loop (lines 266-277)
LoopStep ==
    /\ pc = "loop"
    /\ loop_i < nb_vertices
    /\ UNCHANGED <<weighted_, keep_infinite_, do_reorder_, vertices, heights_, reorder_,
                   nb_cells_, nb_finite_cells_, first4, nb_calls, ctor, query, threads>>
    /\ \E go \in BOOLEAN :
         /\ cb_log' = Append(cb_log, <<loop_i, nb_vertices, go>>)
         /\ IF ~go
            THEN /\ ReturnFalse
                 /\ UNCHANGED <<cell_to_v_store_, cell_to_cell_store_, cell_next_,
                                first_free_, cur_stamp_, loop_i, hint, last_insert>>
            ELSE LET v == At(reorder_, loop_i)
                 IN  /\ pc' = "loop"
                     /\ result' = result
                     /\ loop_i' = loop_i + 1
                     /\ IF v # first4[1] /\ v # first4[2] /\ v # first4[3] /\ v # first4[4]
                        THEN \E r \in insert(Store, v, hint) :
                               /\ SetStore(r.m)
                               /\ hint' = NextHint(hint, r.ret)
                               /\ last_insert' = r.did @@ [ret |-> r.ret]
                        ELSE UNCHANGED <<cell_to_v_store_, cell_to_cell_store_, cell_next_,
                                         first_free_, cur_stamp_, hint, last_insert>>

\* compaction and publication (lines 302-410)
\* variant of PublishPartition: set_arrays is given the number of finite cells
PublishPartitionFiniteOnly(nb_tets, q) ==
    /\ SetStore(q.m)
    /\ nb_finite_cells_' = q.nb
    /\ nb_cells_' = q.nb

PublishPartition(nb_tets, q) ==
    /\ SetStore(q.m)
    /\ nb_finite_cells_' = q.nb
    /\ nb_cells_' = nb_tets

\* lines 349-408: c is the result of the compaction
Publish(c) ==
    IF keep_infinite_
    THEN \E q \in {Partition(c.m, c.nb_tets)} : PublishPartition(c.nb_tets, q)
    ELSE /\ SetStore(c.m)
         /\ nb_finite_cells_' = nb_finite_cells_
         /\ nb_cells_' = c.nb_tets

Finish ==
    /\ pc = "loop"
    /\ loop_i = nb_vertices
    /\ \E c \in {Compress(Store)} : Publish(c)
    /\ ReturnTrue
    /\ UNCHANGED <<weighted_, keep_infinite_, do_reorder_, vertices, heights_, reorder_,
                   loop_i, hint, first4, last_insert, cb_log, nb_calls, ctor, query,
                   threads>>

Next == SetVertices \/ CreateFirst \/ LoopStep \/ Finish

Spec == Init /\ [][Next]_vars

\* inputs of up to MaxRecycleN points whose last inserts find more cells on
\* the free list than they create
MaxRecycleN == 7

RecycleInputs ==
    {SubSeq(<<1, 2, 4, 5, Len(Pool) + Len(QueryPool) + 1, Len(Pool) + Len(QueryPool) + 2,
              Len(Pool) + Len(QueryPool) + 3, Len(Pool) + 1, Len(Pool) + 2>>, 1, n) :
        n \in 5..MaxRecycleN}

SetVerticesRecycle ==
    /\ pc = "idle"
    /\ \E q \in Inputs \cup RecycleInputs, go \in BOOLEAN :
         \E order \in (IF do_reorder_ THEN BRIO_orders(Len(q)) ELSE {Identity(Len(q))}) :
            Begin(q, order, go)

NextRecycle == SetVerticesRecycle \/ CreateFirst \/ LoopStep \/ Finish

SpecRecycle == Init /\ [][NextRecycle]_vars

\* inputs of up to MaxRecycleN points in which an insert that does nothing (of
\* the last point of Pool, which has the coordinates of A) is followed by
\* another insert; set_vertices is called on one of them or on one of Inputs
HintInputs ==
    {SubSeq(<<1, 2, 4, 5, 6, 8, 7, 3>>, 1, n) : n \in 5..MaxRecycleN}

SetVerticesHint ==
    /\ pc = "idle"
    /\ \E q \in Inputs \cup HintInputs, go \in BOOLEAN :
         \E order \in (IF do_reorder_ THEN BRIO_orders(Len(q)) ELSE {Identity(Len(q))}) :
            Begin(q, order, go)

NextHintSpec == SetVerticesHint \/ CreateFirst \/ LoopStep \/ Finish

SpecHint == Init /\ [][NextHintSpec]_vars

\* inputs whose last point is on facets of the cell it is located in: on the
\* facet BDE of the convex hull, on the facet BDE between two finite cells, on
\* the edge AB between a facet of the hull and a facet inside the hull;
\* set_vertices is called on one of them or on one of Inputs
SeedInputs ==
    {<<1, 2, 4, 5, Len(Pool) + Len(QueryPool) + 3>>,
     <<1, 2, 4, 5, Len(Pool) + Len(QueryPool) + Len(RecyclePool) + 1,
       Len(Pool) + Len(QueryPool) + 3>>,
     <<1, 2, 4, 5, 6, 3>>}

SetVerticesSeed ==
    /\ pc = "idle"
    /\ \E q \in Inputs \cup SeedInputs, go \in BOOLEAN :
         \E order \in (IF do_reorder_ THEN BRIO_orders(Len(q)) ELSE {Identity(Len(q))}) :
            Begin(q, order, go)

NextSeed == SetVerticesSeed \/ CreateFirst \/ LoopStep \/ Finish

SpecSeed == Init /\ [][NextSeed]_vars

\* one object serving up to MaxCalls calls
NextReuse == SetVerticesReuse \/ CreateFirst \/ LoopStep \/ Finish

SpecReuse == Init /\ [][NextReuse]_vars

(***************************************************************************)
(* Properties                                                              *)
(***************************************************************************)
AllCells == 0..(max_t(Store) - 1)

NonFreeCells == {t \in AllCells : ~tet_is_free(Store, t)}

\* the cells of the arrays handed to set_arrays
PublishedCells == 0..(nb_cells_ - 1)

\* the call has returned true after the compaction
Finalized == pc = "returned" /\ result = "true" /\ first4 # <<>>

\* the call has returned true from the degenerate branch (line 261)
Degenerate == pc = "returned" /\ result = "true" /\ first4 = <<>>

\* the insertion loop has ended and the compaction has not begun
AllInserted == pc = "loop" /\ loop_i = nb_vertices

(***************************************************************************)
(* Construction of the object, and queries on the mesh                     *)
(***************************************************************************)
\* largest dimension passed to a constructor
MaxDimension == 5

\* largest number of points of an input of a mesh that is queried
MaxQueryN == 6

Classes == {"Delaunay3d", "RegularWeightedDelaunay3d"}

\* ctor before any constructor has run
NoCtor == [class |-> "none", dimension |-> 0, thrown |-> FALSE]

\* variant of Delaunay3d_ctor: no dimension is refused
Delaunay3d_ctorAnyDimension(dimension) ==
    [thrown |-> FALSE, weighted |-> (dimension = 4)]

\* Delaunay3d::Delaunay3d(dimension): [thrown, weighted]
Delaunay3d_ctor(dimension) ==
    IF dimension # 3 /\ dimension # 4
    THEN [thrown |-> TRUE, weighted |-> weighted_]
    ELSE [thrown |-> FALSE, weighted |-> (dimension = 4)]

\* RegularWeightedDelaunay3d::RegularWeightedDelaunay3d(dimension): the base
\* constructor Delaunay3d(4), then the test of dimension
RegularWeightedDelaunay3d_ctor(dimension) ==
    [thrown |-> Delaunay3d_ctor(4).thrown \/ dimension # 4,
     weighted |-> Delaunay3d_ctor(4).weighted]

\* the object as it is before a constructor runs
InitNew ==
    /\ weighted_ = FALSE
    /\ keep_infinite_ = FALSE
    /\ do_reorder_ = FALSE
    /\ vertices = <<>>
    /\ heights_ = <<>>
    /\ reorder_ = <<>>
    /\ cell_to_v_store_ = <<>>
    /\ cell_to_cell_store_ = <<>>
    /\ cell_next_ = <<>>
    /\ first_free_ = END_OF_LIST
    /\ cur_stamp_ = 0
    /\ nb_cells_ = 0
    /\ nb_finite_cells_ = 0
    /\ pc = "new"
    /\ loop_i = 0
    /\ hint = NO_TETRAHEDRON
    /\ first4 = <<>>
    /\ last_insert = NoInsert
    /\ cb_log = <<>>
    /\ result = "none"
    /\ nb_calls = 0
    /\ ctor = NoCtor
    /\ query = NoQuery
    /\ threads = NoThreads

\* the outcome c of the constructor of class with dimension; keep_infinite_
\* and do_reorder_ are then set by the caller
Constructed(class, dimension, c) ==
    /\ ctor' = [class |-> class, dimension |-> dimension, thrown |-> c.thrown]
    /\ weighted_' = c.weighted
    /\ pc' = IF c.thrown THEN "thrown" ELSE "idle"
    /\ IF c.thrown
       THEN UNCHANGED <<keep_infinite_, do_reorder_>>
       ELSE keep_infinite_' \in BOOLEAN /\ do_reorder_' \in BOOLEAN

Construct ==
    /\ pc = "new"
    /\ \E class \in Classes, dimension \in 0..MaxDimension :
         Constructed(class, dimension,
                     IF class = "Delaunay3d" THEN Delaunay3d_ctor(dimension)
                     ELSE RegularWeightedDelaunay3d_ctor(dimension))
    /\ UNCHANGED <<vertices, heights_, reorder_, cell_to_v_store_, cell_to_cell_store_,
                   cell_next_, first_free_, cur_stamp_, nb_cells_, nb_finite_cells_,
                   loop_i, hint, first4, last_insert, cb_log, result, nb_calls,
                   query, threads>>

\* the inputs of the meshes that are queried: the four corners A, B, D, E of
\* the pool and some of C (on an edge), F and H (inside), in pool order, and
\* the six points of QueryPool
QueryInputs ==
    {Ascending({1, 2, 4, 5} \cup S) :
        S \in {T \in SUBSET {3, 6, 7} : Cardinality(T) + 4 <= MaxQueryN}}
        \cup {Ascending((Len(Pool) + 1)..(Len(Pool) + Len(QueryPool)))}

SetVerticesQuery ==
    /\ pc = "idle"
    /\ \E q \in QueryInputs, go \in BOOLEAN :
         \E order \in (IF do_reorder_ THEN BRIO_orders(Len(q)) ELSE {Identity(Len(q))}) :
            Begin(q, order, go)

\* the points passed to the queries
QueryPoints ==
    {<<1, 1, 1, 0>>, <<1, 2, 2, 0>>, <<5, 5, 5, 0>>, <<5, 3, 3, 0>>}

\* Geom::distance2(p, q, 3)
distance2(p, q) == geo_sqr(p[1] - q[1]) + geo_sqr(p[2] - q[2]) + geo_sqr(p[3] - q[3])

\* Delaunay::nearest_vertex: the linear search, from vertex v on, best being
\* the nearest vertex so far
RECURSIVE LinearSearch(_, _, _)
LinearSearch(p, v, best) ==
    IF v = nb_vertices THEN best
    ELSE IF distance2(p, vertex_ptr(v)) < distance2(p, vertex_ptr(best))
    THEN LinearSearch(p, v + 1, v)
    ELSE LinearSearch(p, v + 1, best)

\* the loop of nearest_vertex over the vertices lv..3 of cell t (lines 433-450)
RECURSIVE NearestOfCell(_, _, _, _, _)
NearestOfCell(m, p, t, lv, best) ==
    IF lv = 4 THEN best
    ELSE IF tet_vertex(m, t, lv) < 0 THEN NearestOfCell(m, p, t, lv + 1, best)
    ELSE IF best = NO_TETRAHEDRON
            \/ distance2(p, vertex_ptr(tet_vertex(m, t, lv))) < distance2(p, vertex_ptr(best))
    THEN NearestOfCell(m, p, t, lv + 1, tet_vertex(m, t, lv))
    ELSE NearestOfCell(m, p, t, lv + 1, best)

\* nearest_vertex once locate has returned t (lines 429-450)
NearestFrom(m, p, t) ==
    IF t \in {NEVER_RETURNS, WALK_DIVERGED} THEN t
    ELSE IF t = NO_TETRAHEDRON \/ tet_is_virtual(m, t) THEN LinearSearch(p, 1, 0)
    ELSE NearestOfCell(m, p, t, 0, NO_TETRAHEDRON)

\* every [t, v] of nearest_vertex(p): the cell located (if any) and the result
nearest_vertex(m, p) ==
    IF weighted_
    THEN {[t |-> NO_TETRAHEDRON, v |-> LinearSearch(p, 1, 0)]}
    ELSE {[t |-> r.t, v |-> NearestFrom(m, p, r.t)] : r \in locate(m, p, NO_TETRAHEDRON)}

\* the cells a caller can pass as hint
HintCells == IF pc = "loop" THEN NonFreeCells ELSE PublishedCells

\* a query can be made between two inserts and on the finalized mesh
Queryable == pc = "loop" \/ (Finalized /\ nb_cells_ > 0)

QueryDone ==
    /\ pc' = "queried"
    /\ UNCHANGED <<weighted_, keep_infinite_, do_reorder_, vertices, heights_, reorder_,
                   cell_to_v_store_, cell_to_cell_store_, cell_next_, first_free_,
                   cur_stamp_, nb_cells_, nb_finite_cells_, loop_i, hint, first4,
                   last_insert, cb_log, result, nb_calls, ctor, threads>>

\* a call locate(p, h, false, orient)
Locate ==
    /\ Queryable
    /\ \E p \in QueryPoints, h \in {NO_TETRAHEDRON} \cup HintCells :
         \E r \in locate(Store, p, h) :
            query' = [op |-> "locate", at |-> pc, p |-> p, hint |-> h, t |-> r.t,
                      orient |-> r.orient, v |-> -1]
    /\ QueryDone

\* a call nearest_vertex(p) on the finalized mesh
NearestVertex ==
    /\ Finalized /\ nb_cells_ > 0
    /\ \E p \in QueryPoints :
         \E r \in nearest_vertex(Store, p) :
            query' = [op |-> "nearest_vertex", at |-> pc, p |-> p,
                      hint |-> NO_TETRAHEDRON, t |-> r.t, orient |-> <<>>, v |-> r.v]
    /\ QueryDone

NextQuery ==
    Construct \/ SetVerticesQuery \/ CreateFirst \/ LoopStep \/ Finish \/ Locate
        \/ NearestVertex

\* an object from its construction to a query on its mesh
SpecQuery == InitNew /\ [][NextQuery]_vars

Symmetric(cells) ==
    \A t \in cells : \A f \in 0..3 :
        LET B == tet_adjacent(Store, t, f)
        IN  B \in cells /\ \E g \in 0..3 : tet_adjacent(Store, B, g) = t

\* C1: adjacency is symmetric after create_first_tetrahedron and after every
\* completed insert (over the non-free cells), and in the finalized mesh when
\* the infinite cells are kept: the neighbor B of a cell A across any facet
\* is a cell and has A as neighbor across one of its facets.
AdjacencySymmetric ==
    /\ pc = "loop" => Symmetric(NonFreeCells)
    /\ (Finalized /\ keep_infinite_) => Symmetric(PublishedCells)

\* an insert has replaced a conflict zone of at least 3 cells
AdjacencySymmetricWitness ==
    /\ pc = "loop"
    /\ last_insert.ret # NO_TETRAHEDRON
    /\ Len(last_insert.conflict) >= 3
    /\ Cardinality(NonFreeCells) >= 8

\* C2: no cell is its own neighbor, after create_first_tetrahedron, after
\* every completed insert and after the compaction.
NoSelfAdjacency ==
    /\ pc = "loop" =>
         \A t \in NonFreeCells : \A f \in 0..3 : tet_adjacent(Store, t, f) # t
    /\ Finalized =>
         \A t \in PublishedCells : \A f \in 0..3 : tet_adjacent(Store, t, f) # t

\* a compaction that has moved cells and renumbered the neighbors
NoSelfAdjacencyWitness ==
    /\ Finalized
    /\ nb_cells_ >= 3
    /\ last_insert.ret # NO_TETRAHEDRON
    /\ \E t \in PublishedCells : At(cell_next_, t) # t

InfiniteSlots(t) ==
    Cardinality({lv \in 0..3 : tet_vertex(Store, t, lv) = VERTEX_AT_INFINITY})

\* C3: after any sequence of insertions a non-free cell has at most one
\* vertex slot equal to VERTEX_AT_INFINITY and a virtual cell has exactly one.
SingleInfiniteVertex ==
    pc = "loop" =>
        \A t \in NonFreeCells :
            /\ InfiniteSlots(t) <= 1
            /\ tet_is_virtual(Store, t) => InfiniteSlots(t) = 1

\* the last insert stellated a zone holding a virtual cell, and a virtual cell
\* with the new vertex exists
SingleInfiniteVertexWitness ==
    /\ pc = "loop"
    /\ last_insert.ret # NO_TETRAHEDRON
    /\ \E k \in 1..Len(last_insert.conflict) : InfiniteSlots(last_insert.conflict[k]) = 1
    /\ \E t \in NonFreeCells :
         /\ tet_is_virtual(Store, t)
         /\ \E lv \in 0..3 : tet_vertex(Store, t, lv) = last_insert.v

\* the vertices handed to insert so far, and those of the first tetrahedron
Inserted ==
    {first4[k] : k \in 1..Len(first4)} \cup {At(reorder_, j) : j \in 0..(loop_i - 1)}

CellVertices(t) == {tet_vertex(Store, t, lv) : lv \in 0..3}

DelaunayOver(cells, vs) ==
    \A t \in cells :
        tet_is_finite(Store, t) =>
            \A v \in vs \ CellVertices(t) : ~tet_is_conflict(Store, t, v)

\* C4: Delaunay property: after every completed insert, for the vertices
\* inserted so far, and in the finalized mesh, no vertex is in conflict with
\* a finite cell it is not a vertex of (in-sphere predicate, or the power
\* predicate of the weighted mode).
DelaunayProperty ==
    /\ pc = "loop" => DelaunayOver(NonFreeCells, Inserted)
    /\ Finalized => DelaunayOver(PublishedCells, 0..(nb_vertices - 1))

Covered(v) == \E t \in NonFreeCells : v \in CellVertices(t)

First4 == {first4[k] : k \in 1..Len(first4)}

\* the vertices that are in the triangulation or were handed to insert
\* before v is
InsertedBefore(v) ==
    IF v \in First4 THEN {}
    ELSE First4 \cup
         {At(reorder_, j) : j \in {i \in 0..(nb_vertices - 1) :
                                     \A k \in 0..i : At(reorder_, k) # v}}

\* C5 as stated: once every vertex of a non-degenerate input is inserted, a
\* vertex whose coordinates differ from those of every vertex of smaller
\* index is a vertex of some non-free cell of the store.
VertexCoverage ==
    AllInserted =>
        \A v \in 0..(nb_vertices - 1) :
            (\A u \in 0..(v - 1) : ~points_are_identical(vertex_ptr(u), vertex_ptr(v)))
                => Covered(v)

\* C5 amended: in the unweighted mode, once every vertex of a non-degenerate
\* input is inserted, a vertex whose coordinates differ from those of every
\* vertex inserted before it is a vertex of some non-free cell of the store.
VertexCoverageUnweighted ==
    (AllInserted /\ ~weighted_) =>
        \A v \in 0..(nb_vertices - 1) :
            (\A u \in InsertedBefore(v) :
                 ~points_are_identical(vertex_ptr(u), vertex_ptr(v)))
                => Covered(v)

\* every vertex is inserted, one of them on an edge of the first tetrahedron,
\* and a vertex is left out as the duplicate of a vertex of larger index
VertexCoverageUnweightedWitness ==
    /\ AllInserted
    /\ ~weighted_
    /\ nb_vertices >= 6
    /\ \E v \in 0..(nb_vertices - 1) :
         /\ ~Covered(v)
         /\ \A u \in 0..(v - 1) : ~points_are_identical(vertex_ptr(u), vertex_ptr(v))
    /\ \E v \in 0..(nb_vertices - 1) : v \notin First4 /\ Covered(v)

Quadruples ==
    {T \in SUBSET (0..(nb_vertices - 1)) : Cardinality(T) = 4}

Coplanar(T) ==
    LET q == Ascending(T)
    IN  orient_3d(vertex_ptr(q[1]), vertex_ptr(q[2]), vertex_ptr(q[3]),
                  vertex_ptr(q[4])) = ZERO

\* no two points with the same coordinates and no four coplanar points
GeneralPosition ==
    /\ \A u, v \in 0..(nb_vertices - 1) :
         u # v => ~points_are_identical(vertex_ptr(u), vertex_ptr(v))
    /\ \A T \in Quadruples : ~Coplanar(T)

LiftedHeight(v) ==
    IF weighted_ THEN At(heights_, v) ELSE SqNorm(vertex_ptr(v))

\* v lies strictly inside the sphere (below the lifted hyperplane) of T,
\* whatever the orientation of T
InSphere(T, v) ==
    LET q == Ascending(T)
        a == vertex_ptr(q[1])
        b == vertex_ptr(q[2])
        c == vertex_ptr(q[3])
        d == vertex_ptr(q[4])
    IN  orient_3d(a, b, c, d) *
        orient_3dlifted_SOS(a, b, c, d, vertex_ptr(v),
                            LiftedHeight(q[1]), LiftedHeight(q[2]),
                            LiftedHeight(q[3]), LiftedHeight(q[4]),
                            LiftedHeight(v)) > 0

\* the Delaunay (regular) cells of the point set, as sets of points
ReferenceCells ==
    {{vertex_ptr(v) : v \in T} :
        T \in {Q \in Quadruples :
                 \A v \in (0..(nb_vertices - 1)) \ Q : ~InSphere(Q, v)}}

\* the finite cells of the finalized mesh, as sets of points
FiniteCells ==
    {{vertex_ptr(tet_vertex(Store, t, lv)) : lv \in 0..3} :
        t \in {c \in PublishedCells : tet_is_finite(Store, c)}}

\* C6: for an input in general position without duplicates, the set of the
\* finite cells of the finalized mesh is a function of the set of the input
\* points alone; it is the same for every input order, every reorder
\* permutation and every choice made by locate.
InsertionOrderInvariance ==
    (Finalized /\ GeneralPosition) => FiniteCells = ReferenceCells

\* a finalized mesh of six points in general position inserted in an order
\* that is not the input order
InsertionOrderInvarianceWitness ==
    /\ Finalized
    /\ GeneralPosition
    /\ nb_vertices = 6
    /\ reorder_ # Identity(nb_vertices)
    /\ Cardinality(FiniteCells) >= 4

\* fewer than 4 points, or points all coincident, collinear or coplanar
DegenerateInput == \A T \in Quadruples : Coplanar(T)

\* no invocation of the progress callback has returned false
NotCancelled == \A k \in 1..Len(cb_log) : cb_log[k][3]

\* C7: on a degenerate input set_vertices returns having created no
\* tetrahedron and the output it exposes has zero cells, whatever the object
\* held from an earlier call.
DegenerateYieldsNoCells ==
    (pc = "returned" /\ NotCancelled /\ DegenerateInput) =>
        /\ Degenerate
        /\ max_t(Store) = 0
        /\ cell_to_v_store_ = <<>>
        /\ nb_cells_ = 0

\* C8 as stated: the value returned for a degenerate input differs from the
\* value true returned for a successful construction.
DegenerateReturnDiffers ==
    (pc = "returned" /\ NotCancelled /\ DegenerateInput) => result # "true"

\* C8 amended: set_vertices returns true for a degenerate input as it does
\* for a successful construction; it returns false exactly when an
\* invocation of the progress callback returned false.
DegenerateReturnsTrue ==
    pc = "returned" =>
        /\ result \in {"true", "false"}
        /\ result = "false" <=> ~NotCancelled
        /\ (NotCancelled /\ DegenerateInput) => (result = "true" /\ Degenerate)
        /\ (NotCancelled /\ ~DegenerateInput) => (result = "true" /\ Finalized)

\* a call on three or more collinear points has returned true
DegenerateReturnsTrueWitness ==
    /\ pc = "returned"
    /\ nb_vertices >= 3
    /\ DegenerateInput
    /\ NotCancelled
    /\ result = "true"

\* the invocations so far are (0,0), (0,n), (1,n), ... in this order
CallbackOrder ==
    /\ \A k \in 1..Len(cb_log) :
         IF k = 1 THEN cb_log[k][1] = 0 /\ cb_log[k][2] = 0
         ELSE cb_log[k][1] = k - 2 /\ cb_log[k][2] = nb_vertices
    /\ pc \in {"first", "loop"} => Len(cb_log) = loop_i + 1
    /\ Finalized => Len(cb_log) = nb_vertices + 1

\* an invocation that returned false is the last one and the call has
\* returned false
CancelledReturnsFalse ==
    \A k \in 1..Len(cb_log) :
        ~cb_log[k][3] => (k = Len(cb_log) /\ pc = "returned" /\ result = "false")

\* the step in which an invocation returns false makes no insert, no
\* compaction and no publication
CancelStep ==
    (cb_log' # cb_log /\ ~cb_log'[Len(cb_log')][3]) =>
        /\ pc' = "returned"
        /\ result' = "false"
        /\ nb_cells_' = nb_cells_
        /\ nb_finite_cells_' = nb_finite_cells_
        /\ Len(cb_log') > 1 =>
             /\ cell_to_v_store_' = cell_to_v_store_
             /\ cell_to_cell_store_' = cell_to_cell_store_
             /\ cell_next_' = cell_next_
             /\ first_free_' = first_free_
             /\ loop_i' = loop_i
             /\ last_insert' = last_insert

InsertStep(v) ==
    /\ pc = "loop"
    /\ pc' = "loop"
    /\ loop_i' = loop_i + 1
    /\ v = At(reorder_, loop_i)
    /\ v \notin First4

DuplicateStep ==
    \A v \in 0..(nb_vertices - 1) :
        (/\ InsertStep(v)
         /\ \E w \in 0..(nb_vertices - 1) :
              Covered(w) /\ points_are_identical(vertex_ptr(w), vertex_ptr(v)))
        => /\ last_insert'.v = v
           /\ last_insert'.ret = NO_TETRAHEDRON
           /\ hint' = hint
           /\ cell_to_v_store_' = cell_to_v_store_
           /\ cell_to_cell_store_' = cell_to_cell_store_
           /\ cell_next_' = cell_next_
           /\ first_free_' = first_free_

\* C10: insert of a vertex with the coordinates of a vertex of the
\* triangulation returns NO_TETRAHEDRON, allocates and frees no cell, and
\* leaves the vertex slots, the neighbor slots and the free list as they were.
DuplicateInsertNoOp == [][DuplicateStep]_vars

\* the last step inserted a duplicate into a triangulation that already
\* has recycled cells
DuplicateInsertNoOpWitness ==
    /\ pc = "loop"
    /\ loop_i >= 1
    /\ last_insert.v = At(reorder_, loop_i - 1)
    /\ nb_zero(last_insert.orient) >= 3
    /\ last_insert.ret = NO_TETRAHEDRON
    /\ first_free_ # END_OF_LIST

(***************************************************************************)
(* Initial configuration                                                   *)
(***************************************************************************)
\* create_first_tetrahedron has returned true and no insert has been made
FirstTetrahedronMade == pc = "loop" /\ loop_i = 0

\* the vertices of cell t but the one in slot lf: its facet lf
FacetVertices(t, lf) == {tet_vertex(Store, t, lv) : lv \in (0..3) \ {lf}}

\* C11: after create_first_tetrahedron there are exactly 1 finite cell (cell
\* 0, on the four vertices chosen) and 4 virtual cells; virtual cell f has
\* the infinite vertex and exactly the three vertices of facet f of the
\* finite cell; the finite cell and virtual cell f are neighbors of each
\* other across f and across slot 0; every virtual cell is linked to the
\* three others, each across the facet whose vertices the two share; all 20
\* neighbor slots name a cell and are symmetric.
InitialConfiguration ==
    FirstTetrahedronMade =>
        /\ max_t(Store) = 5
        /\ NonFreeCells = 0..4
        /\ {t \in 0..4 : tet_is_finite(Store, t)} = {0}
        /\ {t \in 0..4 : tet_is_virtual(Store, t)} = 1..4
        /\ CellVertices(0) = First4 /\ Cardinality(First4) = 4
        /\ \A f \in 0..3 :
             /\ tet_vertex(Store, f + 1, 0) = VERTEX_AT_INFINITY
             /\ FacetVertices(f + 1, 0) = FacetVertices(0, f)
             /\ tet_adjacent(Store, 0, f) = f + 1
             /\ tet_adjacent(Store, f + 1, 0) = 0
             /\ {tet_adjacent(Store, f + 1, lf) : lf \in 1..3} = (1..4) \ {f + 1}
             /\ \A lf \in 1..3 :
                  FacetVertices(f + 1, lf) \subseteq
                      CellVertices(tet_adjacent(Store, f + 1, lf))
        /\ \A t \in 0..4 : \A lf \in 0..3 : tet_adjacent(Store, t, lf) \in 0..4
        /\ Symmetric(0..4)

\* the first tetrahedron of an input whose third and fourth vertices were
\* swapped to make it positively oriented
InitialConfigurationWitness ==
    /\ FirstTetrahedronMade
    /\ first4[3] > first4[4]
    /\ max_t(Store) = 5

(***************************************************************************)
(* Point location                                                          *)
(***************************************************************************)
\* the finite cells of the mesh the query was made on
QueriedFiniteCells ==
    IF query.at = "loop"
    THEN {t \in NonFreeCells : tet_is_finite(Store, t)}
    ELSE {t \in PublishedCells : tet_is_finite(Store, t)}

\* the orientation of p with respect to the four facets of the finite cell c
OrientsIn(c, p) ==
    <<OrientFacet(CellPoints(Store, c), 0, p), OrientFacet(CellPoints(Store, c), 1, p),
      OrientFacet(CellPoints(Store, c), 2, p), OrientFacet(CellPoints(Store, c), 3, p)>>

StrictlyInside(c, p) == OrientsIn(c, p) = <<POSITIVE, POSITIVE, POSITIVE, POSITIVE>>

\* locate has returned the cell c that holds query.p, with its orientations
Located(c) ==
    /\ query.t = c
    /\ query.orient = OrientsIn(c, query.p)
    /\ \A f \in 1..4 : query.orient[f] # NEGATIVE

\* C12 as stated: on every mesh, under construction or finalized, for every
\* point strictly inside a finite cell c and every hint (none, or a cell),
\* locate returns c and reports the orientations of c, none negative.
LocateFindsCell ==
    query.op = "locate" =>
        \A c \in QueriedFiniteCells : StrictlyInside(c, query.p) => Located(c)

\* C12 on the finalized meshes that kept their infinite cells: for every point
\* strictly inside a finite cell c and every hint (none, or a cell), locate
\* returns c and reports the orientations of c, none negative.
LocateFindsCellKept ==
    (query.op = "locate" /\ query.at = "returned" /\ keep_infinite_) =>
        \A c \in QueriedFiniteCells : StrictlyInside(c, query.p) => Located(c)

\* C12 on the finalized meshes that kept their infinite cells, a hint being given
LocateFindsCellKeptHint ==
    (query.op = "locate" /\ query.at = "returned" /\ keep_infinite_
        /\ query.hint # NO_TETRAHEDRON) =>
        \A c \in QueriedFiniteCells : StrictlyInside(c, query.p) => Located(c)

\* C12 on the meshes under construction: after create_first_tetrahedron and
\* between two inserts, for every point strictly inside a finite cell c and
\* every hint (none, or a non-free cell), locate returns c and reports the
\* orientations of c, none negative.
LocateFindsCellInConstruction ==
    (query.op = "locate" /\ query.at = "loop") =>
        \A c \in QueriedFiniteCells : StrictlyInside(c, query.p) => Located(c)

\* a point strictly inside a finite cell was located from a hint that is
\* another cell, in a mesh of at least 12 non-free cells
LocateFindsCellInConstructionWitness ==
    /\ query.op = "locate" /\ query.at = "loop"
    /\ query.hint # NO_TETRAHEDRON /\ query.hint # query.t
    /\ query.t \in QueriedFiniteCells /\ StrictlyInside(query.t, query.p)
    /\ Cardinality(NonFreeCells) >= 12

(***************************************************************************)
(* Point location in a mesh whose infinite cells were stripped             *)
(***************************************************************************)
\* the query was made on a finalized mesh whose infinite cells were stripped
OnStripped == query.at = "returned" /\ ~keep_infinite_

\* the facets of the published cell t whose neighbor slot holds -1
BorderSlots(t) == {f \in 0..3 : tet_adjacent(Store, t, f) = -1}

\* the exact walk, examining facet (f0 + df) % 4 of cell t, returns
\* NO_TETRAHEDRON, whatever the cell it came from
ExactStopsAt(t, f0, df) ==
    \A t_pred \in {NO_TETRAHEDRON} \cup PublishedCells :
        /\ exact_scan(Store, query.p, t, t_pred,
                      <<UNINIT, UNINIT, UNINIT, UNINIT>>, f0, df).kind = "ret"
        /\ exact_scan(Store, query.p, t, t_pred,
                      <<UNINIT, UNINIT, UNINIT, UNINIT>>, f0, df).t = NO_TETRAHEDRON

\* the inexact walk, examining facet f of cell t, returns NO_TETRAHEDRON,
\* whatever the cell it came from and the iterations left
InexactStopsAt(t, f) ==
    \A t_pred \in {NO_TETRAHEDRON} \cup PublishedCells, max_iter \in {1, 2500} :
        inexact_walk(Store, query.p, t, t_pred, CellPoints(Store, t), f,
                     max_iter, MaxWalk) = NO_TETRAHEDRON

\* C13: on a finalized mesh whose infinite cells were stripped, locate never
\* uses -1 as a cell index: the exact walk and the inexact walk return
\* NO_TETRAHEDRON whenever the facet they examine has -1 for neighbor, and so
\* the value of locate, with a hint or with a random one (drawn again when the
\* inexact walk returned NO_TETRAHEDRON), is NO_TETRAHEDRON or a published
\* cell none of whose slots is -1, unless no hint can be drawn.
LocateStopsAtBorder ==
    (query.op = "locate" /\ OnStripped) =>
        /\ query.t \in {NO_TETRAHEDRON, NEVER_RETURNS}
                           \cup {t \in PublishedCells : BorderSlots(t) = {}}
        /\ \A t \in PublishedCells :
              /\ \A f0 \in 0..3, df \in 0..3 :
                    (f0 + df) % 4 \in BorderSlots(t) => ExactStopsAt(t, f0, df)
              /\ \A f \in BorderSlots(t) : InexactStopsAt(t, f)

\* locate was called with no hint for a point strictly inside a finite cell
\* that has a facet on the hull: the inexact walk returned NO_TETRAHEDRON from
\* some hint, a hint was drawn again and the exact walk returned NO_TETRAHEDRON
LocateStopsAtBorderWitness ==
    /\ query.op = "locate" /\ OnStripped
    /\ query.hint = NO_TETRAHEDRON
    /\ query.t = NO_TETRAHEDRON
    /\ NO_TETRAHEDRON \in locate_inexact(Store, query.p, NO_TETRAHEDRON, 2500)
    /\ \E c \in PublishedCells : StrictlyInside(c, query.p) /\ BorderSlots(c) # {}
    /\ nb_cells_ >= 3

(***************************************************************************)
(* Nearest vertex                                                          *)
(***************************************************************************)
\* v is an input vertex and no input vertex is nearer to p
Nearest(v, p) ==
    /\ v \in 0..(nb_vertices - 1)
    /\ \A w \in 0..(nb_vertices - 1) :
          distance2(p, vertex_ptr(v)) <= distance2(p, vertex_ptr(w))

\* C14: on a finalized mesh nearest_vertex(p) returns, for every query point
\* p, an input vertex whose Euclidean distance to p is minimal among all
\* input vertices.
NearestVertexIsNearest ==
    query.op = "nearest_vertex" => Nearest(query.v, query.p)

\* C14, its second part: in the unweighted mode, when locate returned a
\* finite cell, the closest of the 4 vertices of that cell is a nearest vertex
NearestVertexOfCellIsNearest ==
    (query.op = "nearest_vertex" /\ ~weighted_ /\ query.t \in PublishedCells) =>
        Nearest(query.v, query.p)

\* C14 whenever nearest_vertex returns
NearestVertexIsNearestIfReturned ==
    (query.op = "nearest_vertex" /\ query.v # NEVER_RETURNS) =>
        Nearest(query.v, query.p)

(***************************************************************************)
(* Constructors                                                            *)
(***************************************************************************)
\* the dimensions the class of the object accepts
ValidDimension ==
    IF ctor.class = "Delaunay3d" THEN ctor.dimension \in {3, 4} ELSE ctor.dimension = 4

\* C15: Delaunay3d constructed with a dimension other than 3 or 4, and
\* RegularWeightedDelaunay3d with a dimension other than 4, throw
\* InvalidDimension, and then no set_vertices call is ever made on the object,
\* whose store stays empty; otherwise the constructor does not throw and the
\* weighted mode is on exactly when the dimension is 4.
ConfigurationError ==
    ctor.class \in Classes =>
        /\ ctor.thrown <=> ~ValidDimension
        /\ ctor.thrown =>
              /\ pc = "thrown" /\ nb_calls = 0 /\ result = "none"
              /\ vertices = <<>> /\ max_t(Store) = 0 /\ nb_cells_ = 0
        /\ ~ctor.thrown => (weighted_ <=> ctor.dimension = 4)

\* RegularWeightedDelaunay3d(3) has thrown, although its base Delaunay3d(4)
\* was constructed in the weighted mode
ConfigurationErrorWitness ==
    /\ ctor.class = "RegularWeightedDelaunay3d"
    /\ ctor.dimension = 3
    /\ ctor.thrown
    /\ pc = "thrown"

(***************************************************************************)
(* Dangling vertices of the weighted mode                                  *)
(***************************************************************************)
\* the vertices held by the slots of the flat array cv, of free cells included
SlotVertices(cv) == {cv[k] : k \in 1..Len(cv)}

\* the vertices the insertion loop has gone through
Processed == {At(reorder_, i) : i \in 0..(loop_i - 1)}

\* the step inserts, in the weighted mode, a vertex that is not in conflict
\* with the cell locate returned: insert returns NO_TETRAHEDRON with an empty
\* conflict list, the hint is kept, no cell is created, freed or changed, and
\* the vertex is in no vertex slot
DanglingStep ==
    \A v \in 0..(nb_vertices - 1) :
        (/\ InsertStep(v)
         /\ weighted_
         /\ last_insert'.v = v
         /\ ~tet_is_conflict(Store, last_insert'.t, v))
        => /\ last_insert'.ret = NO_TETRAHEDRON
           /\ last_insert'.conflict = <<>>
           /\ hint' = hint
           /\ cell_to_v_store_' = cell_to_v_store_
           /\ cell_to_cell_store_' = cell_to_cell_store_
           /\ cell_next_' = cell_next_
           /\ first_free_' = first_free_
           /\ v \notin SlotVertices(cell_to_v_store_')

\* a vertex the loop has gone through and that is in no vertex slot is in no
\* vertex slot after the step, be it an insert or the compaction
AbsentStays ==
    \A w \in Processed :
        w \notin SlotVertices(cell_to_v_store_) => w \notin SlotVertices(cell_to_v_store_')

\* C16: in the weighted mode, the insert of a vertex that is not in conflict
\* with the cell returned by locate returns NO_TETRAHEDRON and creates no
\* cell, and that vertex is in no vertex slot of any cell in that state, in
\* any later state of the call and in the finalized output.
WeightedDanglingNeverInCell == [][DanglingStep /\ AbsentStays]_vars

\* the mesh is finalized in the weighted mode and the vertex inserted last,
\* located in a cell it does not touch and is not in conflict with, is a
\* vertex of no published cell
WeightedDanglingNeverInCellWitness ==
    /\ Finalized
    /\ weighted_
    /\ last_insert.v >= 0
    /\ nb_zero(last_insert.orient) = 0
    /\ last_insert.ret = NO_TETRAHEDRON
    /\ last_insert.v \notin SlotVertices(cell_to_v_store_)
    /\ nb_cells_ >= 3

(***************************************************************************)
(* Compaction                                                              *)
(***************************************************************************)
\* the step is the end of set_vertices: compaction, set_arrays, return true
FinishStep ==
    /\ pc = "loop"
    /\ loop_i = nb_vertices
    /\ pc' = "returned"
    /\ result' = "true"

\* the cells of the store that are neither free nor virtual
RealCells == {t \in AllCells : tet_is_real(Store, t)}

\* the number of cells of S below t: the new index of t when S is kept in order
Rank(S, t) == Cardinality({s \in S : s < t})

\* the slots of cell t after the step
tet_vertex_after(t, lv) == cell_to_v_store_'[4 * t + lv + 1]

tet_adjacent_after(t, lf) == cell_to_cell_store_'[4 * t + lf + 1]

\* the published cell of index Rank(RealCells, t) is the cell t of the store:
\* same vertices, neighbors renumbered, -1 for the virtual ones and only them
KeptAsReal(t) ==
    \A l \in 0..3 :
        /\ tet_vertex_after(Rank(RealCells, t), l) = tet_vertex(Store, t, l)
        /\ tet_adjacent(Store, t, l) \in RealCells =>
              tet_adjacent_after(Rank(RealCells, t), l)
                  = Rank(RealCells, tet_adjacent(Store, t, l))
        /\ tet_adjacent_after(Rank(RealCells, t), l) = -1
              <=> tet_is_virtual(Store, tet_adjacent(Store, t, l))

CompactionDefaultStep ==
    (FinishStep /\ ~keep_infinite_) =>
        /\ nb_cells_' = Cardinality(RealCells)
        /\ Len(cell_to_v_store_') = 4 * nb_cells_'
        /\ Len(cell_to_cell_store_') = 4 * nb_cells_'
        /\ \A t \in RealCells : KeptAsReal(t)

\* C17: when the infinite cells are not kept, the finalized cells are exactly
\* the non-free finite cells of the store, renumbered contiguously in their
\* original order with their vertex slots unchanged; a neighbor slot holds
\* the new index of the old neighbor when it was a finite cell and -1 exactly
\* when the old neighbor was a virtual cell.
CompactionDefault == [][CompactionDefaultStep]_vars

\* a finalized mesh without its infinite cells in which a cell was moved to a
\* smaller index and which has cells that are neighbors of each other
CompactionDefaultWitness ==
    /\ Finalized
    /\ ~keep_infinite_
    /\ nb_cells_ >= 3
    /\ \E t \in 0..(Len(cell_next_) - 1) : At(cell_next_, t) >= 0 /\ At(cell_next_, t) < t
    /\ \E t \in PublishedCells, lf \in 0..3 : tet_adjacent(Store, t, lf) >= 0
    /\ \E t \in PublishedCells, lf \in 0..3 : tet_adjacent(Store, t, lf) = -1

\* the cells of the store that are not free
LiveCells == {t \in AllCells : ~tet_is_free(Store, t)}

\* the vertices of cell t after the step
CellVerticesAfter(t) == {tet_vertex_after(t, lv) : lv \in 0..3}

\* new is a renumbering of the non-free cells of the store onto the published
\* cells that keeps the vertex slots and the neighbor of every facet
Renumbers(new) ==
    /\ {new[t] : t \in LiveCells} = 0..(nb_cells_' - 1)
    /\ \A t \in LiveCells : \A l \in 0..3 :
          /\ tet_vertex_after(new[t], l) = tet_vertex(Store, t, l)
          /\ tet_adjacent(Store, t, l) \in LiveCells
          /\ tet_adjacent_after(new[t], l) = new[tet_adjacent(Store, t, l)]

\* the published cell that has the vertex slots of cell t of the store
NewIndex(t) ==
    CHOOSE n \in 0..(nb_cells_' - 1) :
        \A l \in 0..3 : tet_vertex_after(n, l) = tet_vertex(Store, t, l)

\* the neighbor slots after the step are symmetric
SymmetricAfter ==
    \A t \in 0..(nb_cells_' - 1) : \A lf \in 0..3 :
        \E lf2 \in 0..3 :
            tet_adjacent_after(tet_adjacent_after(t, lf), lf2) = t

CompactionKeepInfiniteStep ==
    (FinishStep /\ keep_infinite_) =>
        /\ nb_cells_' = Cardinality(LiveCells)
        /\ Len(cell_to_v_store_') = 4 * nb_cells_'
        /\ Len(cell_to_cell_store_') = 4 * nb_cells_'
        /\ nb_finite_cells_' = Cardinality(RealCells)
        /\ \A t \in 0..(nb_cells_' - 1) :
              (t < nb_finite_cells_') <=> (VERTEX_AT_INFINITY \notin CellVerticesAfter(t))
        /\ \A k \in 1..Len(cell_to_cell_store_') :
              cell_to_cell_store_'[k] \in 0..(nb_cells_' - 1)
        /\ Renumbers([t \in LiveCells |-> NewIndex(t)])
        /\ SymmetricAfter

\* C18: when the infinite cells are kept, after set_vertices the cells of
\* index below nb_finite_cells are all finite and the others all virtual,
\* nb_finite_cells is the number of finite cells, no neighbor slot is -1, and
\* the adjacency between the cells, with their vertices, is that of the store
\* before the partition under the renumbering, hence symmetric.
CompactionKeepInfinite == [][CompactionKeepInfiniteStep]_vars

\* a finalized mesh with its infinite cells, at least two finite cells, and a
\* cell that the compaction or the partition moved
CompactionKeepInfiniteWitness ==
    /\ Finalized
    /\ keep_infinite_
    /\ nb_finite_cells_ >= 2
    /\ nb_cells_ > nb_finite_cells_
    /\ \E t \in PublishedCells : At(cell_next_, t) # t

\* the store has no free cell: no insert has recycled a cell
NoFreeCells == LiveCells = AllCells

\* the compaction leaves the cell count and every slot as they were
CompactionNoOp ==
    /\ nb_cells_' = max_t(Store)
    /\ cell_to_v_store_' = cell_to_v_store_
    /\ cell_to_cell_store_' = cell_to_cell_store_

\* C19 as stated: the compaction step of set_vertices, applied to a store
\* that has no free cell, leaves the cell count, every vertex slot and every
\* neighbor slot unchanged.
CompactionIdempotent == [][(FinishStep /\ NoFreeCells) => CompactionNoOp]_vars

\* C19 for the output of a previous compaction: the compaction loop run again
\* on a finalized mesh keeps every published cell
RecompactionKeepsCells ==
    (Finalized /\ nb_cells_ > 0) => CompressLoop(Store, 0, 0).nb_tets = nb_cells_

\* C19 when the infinite cells are kept: the compaction step of set_vertices,
\* applied to a store that has no free cell, leaves the cell count, every
\* vertex slot and every neighbor slot unchanged.
CompactionIdempotentKeepInfinite ==
    [][(FinishStep /\ NoFreeCells /\ keep_infinite_) => CompactionNoOp]_vars

\* a finalized mesh with its infinite cells whose store had no free cell,
\* although the insertion loop went through a fifth vertex
CompactionIdempotentKeepInfiniteWitness ==
    /\ Finalized
    /\ keep_infinite_
    /\ first_free_ = END_OF_LIST
    /\ nb_cells_ = Len(cell_next_)
    /\ nb_cells_ >= 5
    /\ last_insert.v >= 0

(***************************************************************************)
(* Queries run by several threads on a finalized mesh                      *)
(***************************************************************************)
NbThreads == 2

Threads == 1..NbThreads

\* the input of the mesh the threads query: A, B, D, E and F inside
ThreadInput == <<1, 2, 4, 5, 6>>

\* the point every thread queries
ThreadPoint == <<1, 1, 1, 0>>

\* a thread that has made no call; acquired and released count the calls of
\* Process::acquire_spinlock and Process::release_spinlock it made
IdleCall ==
    [pc |-> "idle", op |-> "none", thread_safe |-> FALSE, hint |-> NO_TETRAHEDRON,
     t |-> NO_TETRAHEDRON, t_pred |-> NO_TETRAHEDRON,
     orient |-> <<UNINIT, UNINIT, UNINIT, UNINIT>>, ret |-> UNINIT,
     acquired |-> 0, released |-> 0]

\* a constructed Delaunay3d(3) and its threads, none of which has made a call
InitThreads ==
    /\ weighted_ = FALSE
    /\ keep_infinite_ \in BOOLEAN
    /\ do_reorder_ = FALSE
    /\ vertices = <<>>
    /\ heights_ = <<>>
    /\ reorder_ = <<>>
    /\ cell_to_v_store_ = <<>>
    /\ cell_to_cell_store_ = <<>>
    /\ cell_next_ = <<>>
    /\ first_free_ = END_OF_LIST
    /\ cur_stamp_ = 0
    /\ nb_cells_ = 0
    /\ nb_finite_cells_ = 0
    /\ pc = "idle"
    /\ loop_i = 0
    /\ hint = NO_TETRAHEDRON
    /\ first4 = <<>>
    /\ last_insert = NoInsert
    /\ cb_log = <<>>
    /\ result = "none"
    /\ nb_calls = 0
    /\ ctor = [class |-> "Delaunay3d", dimension |-> 3, thrown |-> FALSE]
    /\ query = NoQuery
    /\ threads = [lock |-> FALSE, call |-> [i \in Threads |-> IdleCall]]

\* set_vertices, called by one thread before any query
SetVerticesThreads ==
    /\ pc = "idle"
    /\ \E go \in BOOLEAN : Begin(ThreadInput, Identity(Len(ThreadInput)), go)

\* the mesh is left as it is by the queries: locate and nearest_vertex are const
MeshUnchanged ==
    UNCHANGED <<weighted_, keep_infinite_, do_reorder_, vertices, heights_, reorder_,
                cell_to_v_store_, cell_to_cell_store_, cell_next_, first_free_,
                cur_stamp_, nb_cells_, nb_finite_cells_, pc, loop_i, hint, first4,
                last_insert, cb_log, result, nb_calls, ctor, query>>

\* thread i goes on as c, the spinlock being lock afterwards
Goes(i, c, lock) ==
    /\ threads' = [lock |-> lock, call |-> [threads.call EXCEPT ![i] = c]]
    /\ MeshUnchanged

At_(i, where) == threads.call[i].pc = where

\* thread i calls locate(p, hint, true) or nearest_vertex(p), which calls
\* locate(p, NO_TETRAHEDRON, false) at line 422
ThreadCall ==
    /\ Finalized /\ nb_cells_ > 0
    /\ \E i \in Threads :
         /\ At_(i, "idle")
         /\ \/ \E h \in {NO_TETRAHEDRON} \cup PublishedCells :
                 Goes(i, [IdleCall EXCEPT !.pc = "locate_inexact", !.op = "locate",
                                          !.thread_safe = TRUE, !.hint = h],
                      threads.lock)
            \/ Goes(i, [IdleCall EXCEPT !.pc = "locate_inexact", !.op = "nearest_vertex",
                                        !.thread_safe = FALSE],
                    threads.lock)

\* line 460-461 of locate_inexact: no hint, Numeric::random_int32() is entered
InexactDraw ==
    \E i \in Threads :
        /\ At_(i, "locate_inexact")
        /\ threads.call[i].hint = NO_TETRAHEDRON
        /\ Goes(i, [threads.call[i] EXCEPT !.pc = "random_461"], threads.lock)

\* the hint h after the draw of r: lines 461-464 and 585-588
Drawn(r) == IF tet_is_free(Store, r) THEN NO_TETRAHEDRON ELSE r

\* lines 461-464: random_int32() returns, the hint is kept unless it is free
InexactDrawn ==
    \E i \in Threads :
        /\ At_(i, "random_461")
        /\ \E r \in 0..(max_t(Store) - 1) :
             Goes(i, [threads.call[i] EXCEPT !.pc = "locate_inexact", !.hint = Drawn(r)],
                  threads.lock)

\* lines 467-553 of locate_inexact and its return at line 571 of locate
InexactWalk ==
    \E i \in Threads :
        /\ At_(i, "locate_inexact")
        /\ threads.call[i].hint # NO_TETRAHEDRON
        /\ Goes(i, [threads.call[i] EXCEPT
                       !.pc = "acquire",
                       !.hint = locate_inexact_from(Store, ThreadPoint,
                                                    threads.call[i].hint, 2500)],
                threads.lock)

\* lines 579-581: Process::acquire_spinlock(lock) when thread_safe
Acquire ==
    \E i \in Threads :
        /\ At_(i, "acquire")
        /\ threads.call[i].thread_safe => ~threads.lock
        /\ Goes(i, [threads.call[i] EXCEPT
                       !.pc = "hint",
                       !.acquired = @ + (IF threads.call[i].thread_safe THEN 1 ELSE 0)],
                threads.lock \/ threads.call[i].thread_safe)

\* lines 584-585: no hint, Numeric::random_int32() is entered
HintDraw ==
    \E i \in Threads :
        /\ At_(i, "hint")
        /\ threads.call[i].hint = NO_TETRAHEDRON
        /\ Goes(i, [threads.call[i] EXCEPT !.pc = "random_585"], threads.lock)

\* lines 585-588: random_int32() returns, the hint is kept unless it is free
HintDrawn ==
    \E i \in Threads :
        /\ At_(i, "random_585")
        /\ \E r \in 0..(max_t(Store) - 1) :
             Goes(i, [threads.call[i] EXCEPT !.pc = "hint", !.hint = Drawn(r)],
                  threads.lock)

\* variant of StartWalk: the lock is released once the hint is drawn
StartWalkUnlocked ==
    \E i \in Threads :
        /\ At_(i, "hint")
        /\ threads.call[i].hint # NO_TETRAHEDRON
        /\ Goes(i, [threads.call[i] EXCEPT
                       !.pc = "still_walking",
                       !.t = RealStart(Store, threads.call[i].hint),
                       !.t_pred = NO_TETRAHEDRON],
                threads.lock /\ ~threads.call[i].thread_safe)

\* lines 591-610: the walk starts from a real cell
StartWalk ==
    \E i \in Threads :
        /\ At_(i, "hint")
        /\ threads.call[i].hint # NO_TETRAHEDRON
        /\ Goes(i, [threads.call[i] EXCEPT
                       !.pc = "still_walking",
                       !.t = RealStart(Store, threads.call[i].hint),
                       !.t_pred = NO_TETRAHEDRON],
                threads.lock)

\* lines 612-621: Numeric::random_int32() is entered for the first facet
FacetDraw ==
    \E i \in Threads :
        /\ At_(i, "still_walking")
        /\ Goes(i, [threads.call[i] EXCEPT !.pc = "random_621"], threads.lock)

\* variant of Scanned: the return at an unset neighbor does not release
ScannedBorderKeepsLock(i, r) ==
    IF r.kind = "move"
    THEN Goes(i, [threads.call[i] EXCEPT !.pc = "still_walking", !.t = r.t,
                                         !.t_pred = r.t_pred, !.orient = r.orient],
              threads.lock)
    ELSE Goes(i, [threads.call[i] EXCEPT
                     !.pc = "returned", !.ret = r.t, !.orient = r.orient,
                     !.released = @ + (IF threads.call[i].thread_safe
                                          /\ r.t # NO_TETRAHEDRON THEN 1 ELSE 0)],
              threads.lock /\ (r.t = NO_TETRAHEDRON \/ ~threads.call[i].thread_safe))

\* thread i after the scan r of its cell: the next cell, or the return with
\* the spinlock released when thread_safe (lines 632-636, 673-680, 695-698)
Scanned(i, r) ==
    IF r.kind = "move"
    THEN Goes(i, [threads.call[i] EXCEPT !.pc = "still_walking", !.t = r.t,
                                         !.t_pred = r.t_pred, !.orient = r.orient],
              threads.lock)
    ELSE Goes(i, [threads.call[i] EXCEPT
                     !.pc = "returned", !.ret = r.t, !.orient = r.orient,
                     !.released = @ + (IF threads.call[i].thread_safe THEN 1 ELSE 0)],
              threads.lock /\ ~threads.call[i].thread_safe)

\* lines 621-698: random_int32() returns f0 and the facets of the cell are scanned
FacetDrawn ==
    \E i \in Threads :
        /\ At_(i, "random_621")
        /\ \E f0 \in 0..3 :
             Scanned(i, exact_scan(Store, ThreadPoint, threads.call[i].t,
                                   threads.call[i].t_pred, threads.call[i].orient, f0, 0))

NextThreads ==
    SetVerticesThreads \/ CreateFirst \/ LoopStep \/ Finish \/ ThreadCall
        \/ InexactDraw \/ InexactDrawn \/ InexactWalk \/ Acquire \/ HintDraw
        \/ HintDrawn \/ StartWalk \/ FacetDraw \/ FacetDrawn

\* a mesh is built and finalized, then queried by the threads
SpecThreads == InitThreads /\ [][NextThreads]_vars

\* thread i is inside Numeric::random_int32()
InRandom(i) == threads.call[i].pc \in {"random_461", "random_585", "random_621"}

\* thread i holds the spinlock: it runs locate with thread_safe between the
\* acquire of line 580 and a release
HoldsLock(i) ==
    /\ threads.call[i].thread_safe
    /\ threads.call[i].pc \in {"hint", "random_585", "still_walking", "random_621"}

\* C20: when several threads run locate with thread_safe set, or
\* nearest_vertex, on a finalized mesh, no two of them are inside the random
\* generator at the same time, the draw of the hint by the inexact walk
\* included.
DrawsAreExclusive ==
    \A i \in Threads, j \in Threads : (InRandom(i) /\ InRandom(j)) => i = j

\* C20 for the draws made after line 581 by calls that have thread_safe set:
\* such a thread holds the spinlock, one thread at most holds it, and no two
\* such threads are inside the random generator at the same time
LockedDrawsAreExclusive ==
    /\ \A i \in Threads : HoldsLock(i) => threads.lock
    /\ \A i \in Threads, j \in Threads : (HoldsLock(i) /\ HoldsLock(j)) => i = j

\* two threads that called locate with thread_safe set and no hint are both
\* inside the random generator at line 461
DrawsAreExclusiveWitness ==
    /\ \A i \in Threads :
          /\ threads.call[i].pc = "random_461"
          /\ threads.call[i].op = "locate"


(***************************************************************************)
(* Stellation of the conflict zone                                         *)
(***************************************************************************)
\* the cells of the conflict list of the insert done by the step
ZoneOfStep == {last_insert'.conflict[k] : k \in 1..Len(last_insert'.conflict)}

\* the boundary facets of that zone: a conflict cell c and a facet f of c whose
\* neighbor, in the store before the step, is outside the zone
BoundaryFacets ==
    {b \in ZoneOfStep \X (0..3) : tet_adjacent(Store, b[1], b[2]) \notin ZoneOfStep}

\* the cells of the store after the step
AllCellsAfter == 0..((Len(cell_to_v_store_') \div 4) - 1)

\* the cells that the step created for vertex v: v is in no cell before it
CellsCreated(v) == {n \in AllCellsAfter : v \in CellVerticesAfter(n)}

\* after the step, cell n has the vertices of c with slot f replaced by v
IsStellationOf(n, c, f, v) ==
    \A l \in 0..3 :
        tet_vertex_after(n, l) = IF l = f THEN v ELSE tet_vertex(Store, c, l)

\* the step is an insert of v that found a conflict zone
ZoneStep(v) == InsertStep(v) /\ last_insert'.conflict # <<>>

\* an insert whose conflict list has three cells or more, one of them with
\* two boundary facets, has just been done
StellationOncePerFacetWitness ==
    /\ pc = "loop"
    /\ last_insert.ret # NO_TETRAHEDRON
    /\ Len(last_insert.conflict) >= 3
    /\ Cardinality({n \in AllCells : last_insert.v \in CellVertices(n)})
           > Len(last_insert.conflict) + 2


\* after the step, cell n is the new cell of the boundary facet f of c: it has
\* the vertices of c with v in slot f, it is linked across f to the neighbor
\* of c outside the zone, which is linked back to it in the slot that held c,
\* and its three other neighbors are cells created for v
IsStarCell(n, c, f, v) ==
    /\ IsStellationOf(n, c, f, v)
    /\ tet_adjacent_after(n, f) = tet_adjacent(Store, c, f)
    /\ \E g \in 0..3 :
          /\ tet_adjacent(Store, tet_adjacent(Store, c, f), g) = c
          /\ tet_adjacent_after(tet_adjacent(Store, c, f), g) = n
    /\ \A l \in 0..3 : tet_adjacent_after(n, l) # -1
    /\ \A l \in (0..3) \ {f} : tet_adjacent_after(n, l) \in CellsCreated(v) \ {n}

StarOfVertexStep ==
    \A v \in 0..(nb_vertices - 1) :
        ZoneStep(v) =>
            /\ \A b \in BoundaryFacets :
                  Cardinality({n \in AllCellsAfter : IsStarCell(n, b[1], b[2], v)}) = 1
            /\ \A n \in CellsCreated(v) :
                  \E b \in BoundaryFacets : IsStarCell(n, b[1], b[2], v)

\* C22: after the stellation for vertex v there is exactly one new cell for
\* each boundary facet (c, f) of the conflict zone; it has the vertices of c
\* with slot f replaced by v, is linked across f to the outside neighbor and
\* back, has its four neighbor slots set, and its three other neighbors are
\* new cells that contain v; no other cell contains v
StarOfVertex == [][StarOfVertexStep]_vars

\* an insert of a vertex outside the convex hull has just been done: its
\* conflict zone had two cells or more, and a cell of its star is virtual
StarOfVertexWitness ==
    /\ pc = "loop"
    /\ last_insert.ret # NO_TETRAHEDRON
    /\ Len(last_insert.conflict) >= 2
    /\ \E n \in NonFreeCells :
          /\ last_insert.v \in CellVertices(n)
          /\ VERTEX_AT_INFINITY \in CellVertices(n)


(***************************************************************************)
(* The conflict zone                                                       *)
(***************************************************************************)
\* the zone that find_conflict_zone gave to the insert done by the step
ZoneFound ==
    find_conflict_zone(Store, last_insert'.v, last_insert'.t, last_insert'.orient,
                       UNINIT, UNINIT)

\* the cells of the set cells that a chain of neighbors inside cells joins to seen
RECURSIVE ConnectedFrom(_, _, _)
ConnectedFrom(m, cells, seen) ==
    IF \E c \in cells \ seen : \E s \in seen : \E lf \in 0..3 : tet_adjacent(m, s, lf) = c
    THEN ConnectedFrom(m, cells,
             seen \cup {c \in cells : \E s \in seen : \E lf \in 0..3 :
                                           tet_adjacent(m, s, lf) = c})
    ELSE seen

\* the list of zone z is the maximal connected conflict set of vertex v around t
IsMaximalZone(z, list, v, t) ==
    /\ list = ListCells(z.m, z.first)
    /\ \E k \in 1..Len(list) : list[k] = t
    /\ \A j, k \in 1..Len(list) : list[j] = list[k] => j = k
    /\ ConnectedFrom(z.m, {list[k] : k \in 1..Len(list)}, {t})
           = {list[k] : k \in 1..Len(list)}
    /\ \A k \in 1..Len(list) :
          /\ tet_is_in_list(z.m, list[k])
          /\ tet_is_conflict(z.m, list[k], v)
          /\ \A lf \in 0..3 :
                (\A j \in 1..Len(list) : list[j] # tet_adjacent(z.m, list[k], lf)) =>
                    /\ ~tet_is_conflict(z.m, tet_adjacent(z.m, list[k], lf), v)
                    /\ tet_is_marked(z.m, tet_adjacent(z.m, list[k], lf))

MaximalConflictZoneStep ==
    \A v \in 0..(nb_vertices - 1) :
        ZoneStep(v) =>
            \A z \in {ZoneFound} :
                IsMaximalZone(z, last_insert'.conflict, v, last_insert'.t)

\* C23: when find_conflict_zone returns a list that is not empty, the list is
\* the maximal connected conflict set: it holds the located cell t, each cell
\* once, its cells are face-connected and all in conflict with p, and every
\* neighbor of a listed cell that is not listed is not in conflict and is marked
MaximalConflictZone == [][MaximalConflictZoneStep]_vars

\* an insert of a point on an edge of the located cell (two ZERO orientations)
\* has just been done, with a conflict zone of three cells or more
MaximalConflictZoneWitness ==
    /\ pc = "loop"
    /\ last_insert.ret # NO_TETRAHEDRON
    /\ Len(last_insert.conflict) >= 3
    /\ nb_zero(last_insert.orient) = 2


\* the invocations of stellate_conflict_zone made for the zone z of vertex v
CallsOf(z, v) == stellate_conflict_zone(z.m, v, z.t_bndry, z.f_bndry, -1).m.calls

\* the boundary pair of zone z is assigned: t_bndry is a cell of the list and
\* its neighbor across f_bndry is a cell that is neither free nor in the list
HasBoundary(z, list) ==
    /\ z.t_bndry # UNINIT
    /\ z.f_bndry \in 0..3
    /\ \E k \in 1..Len(list) : list[k] = z.t_bndry
    /\ tet_adjacent(z.m, z.t_bndry, z.f_bndry) \in 0..(max_t(z.m) - 1)
    /\ ~tet_is_free(z.m, tet_adjacent(z.m, z.t_bndry, z.f_bndry))
    /\ \A k \in 1..Len(list) : list[k] # tet_adjacent(z.m, z.t_bndry, z.f_bndry)

\* the invocations calls all had t1 in the list and a neighbor across f1 that
\* is set and not in the list; the first one is the call made by insert
PreconditionHeld(calls, z, list) ==
    /\ calls # <<>>
    /\ calls[1].t1 = z.t_bndry /\ calls[1].f1 = z.f_bndry /\ calls[1].prev_f = -1
    /\ \A k \in 1..Len(calls) :
          /\ calls[k].t1_in_list
          /\ \E j \in 1..Len(list) : list[j] = calls[k].t1
          /\ calls[k].adjacent >= 0
          /\ ~calls[k].adjacent_in_list

BoundaryPairStep ==
    \A v \in 0..(nb_vertices - 1) :
        ZoneStep(v) =>
            \A z \in {ZoneFound} :
                /\ HasBoundary(z, last_insert'.conflict)
                /\ last_insert'.t_bndry = z.t_bndry
                /\ last_insert'.f_bndry = z.f_bndry
                /\ \A calls \in {CallsOf(z, v)} :
                      PreconditionHeld(calls, z, last_insert'.conflict)

\* C24: whenever find_conflict_zone returns a list that is not empty, the
\* pair (t_bndry, f_bndry) has been assigned, t_bndry is in the list and its
\* neighbor across f_bndry is a non-free cell that is not in the list; and
\* every invocation of stellate_conflict_zone, the recursive ones included,
\* has t1 in the list and a neighbor across f1 that is set and not in the list
BoundaryPair == [][BoundaryPairStep]_vars

\* an insert has just been done whose boundary cell is not the located cell
\* and whose conflict zone had two cells or more, so that the stellation
\* made recursive invocations on several cells
BoundaryPairWitness ==
    /\ pc = "loop"
    /\ last_insert.ret # NO_TETRAHEDRON
    /\ Len(last_insert.conflict) >= 2
    /\ last_insert.t_bndry # last_insert.t
    /\ last_insert.f_bndry \in 0..3

\* C21 as stated: every cell of the conflict list is the t1 argument of exactly
\* one invocation of stellate_conflict_zone, so that an insert creates as many
\* cells as its conflict list has
StellationOncePerCellStep ==
    \A v \in 0..(nb_vertices - 1) :
        ZoneStep(v) =>
            \A calls \in {CallsOf(ZoneFound, v)} :
                /\ \A c \in ZoneOfStep :
                      Cardinality({k \in 1..Len(calls) : calls[k].t1 = c}) = 1
                /\ Cardinality(CellsCreated(v)) = Len(last_insert'.conflict)

StellationOncePerCell == [][StellationOncePerCellStep]_vars

StellationOncePerFacetStep ==
    \A v \in 0..(nb_vertices - 1) :
        ZoneStep(v) =>
            \A calls \in {CallsOf(ZoneFound, v)} :
                /\ \A b \in BoundaryFacets :
                      /\ Cardinality({k \in 1..Len(calls) :
                                         calls[k].t1 = b[1] /\ calls[k].f1 = b[2]}) = 1
                      /\ Cardinality({n \in CellsCreated(v) :
                                         IsStellationOf(n, b[1], b[2], v)}) = 1
                /\ \A k \in 1..Len(calls) : <<calls[k].t1, calls[k].f1>> \in BoundaryFacets
                /\ Len(calls) = Cardinality(BoundaryFacets)
                /\ Cardinality(CellsCreated(v)) = Cardinality(BoundaryFacets)

\* C21, amended: stellation replaces each boundary facet of the conflict zone
\* exactly once: every pair of a cell c of the conflict list and a facet f of c
\* whose neighbor is outside the list is the (t1, f1) argument of exactly one
\* invocation of stellate_conflict_zone, so that the number of cells created
\* equals the number of boundary facets of the conflict zone
StellationOncePerFacet == [][StellationOncePerFacetStep]_vars

(***************************************************************************)
(* Recycling of the conflict zone                                          *)
(***************************************************************************)
\* the cells of the sequence list that are not in the set cells, in list order
Without(list, cells) == SelectSeq(list, LAMBDA t : t \notin cells)

\* the free list before the step and after it, from first_free_
FreeList == ListCells(Store, first_free_)

FreeListAfter == ListCells(Store', first_free_')

RecyclingStep ==
    \A v \in 0..(nb_vertices - 1) :
        ZoneStep(v) =>
            /\ CellsCreated(v) \cap ZoneOfStep = {}
            /\ FreeListAfter = last_insert'.conflict \o Without(FreeList, CellsCreated(v))
            /\ \A j, k \in 1..Len(FreeListAfter) :
                  FreeListAfter[j] = FreeListAfter[k] => j = k
            /\ \A t \in AllCellsAfter :
                  cell_next_'[t + 1] >= 0 <=> \E k \in 1..Len(FreeListAfter) : FreeListAfter[k] = t

\* C25: the cells of the conflict zone are put on the free list only after
\* the stellation has returned, so that no cell allocated by the stellation
\* has the index of a cell of the zone; after the insert the chain from
\* first_free_ is acyclic, ends in END_OF_LIST, and holds exactly the cells of
\* the conflict zone followed by the cells that were free before and that the
\* stellation did not reuse
Recycling == [][RecyclingStep]_vars

\* an insert has just been done that reused cells of the free list and left
\* some: the free list is longer than the conflict list
RecyclingWitness ==
    /\ pc = "loop"
    /\ last_insert.ret # NO_TETRAHEDRON
    /\ Len(ListCells(Store, first_free_)) > Len(last_insert.conflict)


(***************************************************************************)
(* Neighbor slots of the cells in use                                      *)
(***************************************************************************)
\* every neighbor slot of a cell of cells is the index of a cell that is not free
NeighborsInUse(cells) ==
    \A t \in cells : \A lf \in 0..3 :
        /\ tet_adjacent(Store, t, lf) # -1
        /\ tet_adjacent(Store, t, lf) \in AllCells
        /\ ~tet_is_free(Store, tet_adjacent(Store, t, lf))

\* the neighbor indices that the remapping loop of the compaction reads (lines
\* 333-342) once the loop over the cells has given c: all are indices of old2new
RemapReadsCells(c) ==
    \A i \in 1..(4 * c.nb_tets) : c.m.cc[i] >= 0 /\ c.m.cc[i] < Len(c.m.next)

\* C26: after create_first_tetrahedron and after every completed insert, no
\* cell that is not free has a neighbor slot that is unset (-1) or that refers
\* to a free cell; hence every neighbor index that the remapping of the
\* compaction reads is a valid non-negative cell index
NoDanglingNeighbor ==
    /\ pc = "loop" => NeighborsInUse(NonFreeCells)
    /\ (pc = "loop" /\ loop_i = nb_vertices) => RemapReadsCells(CompressLoop(Store, 0, 0))

\* the insertion loop has ended after an insert that recycled two cells or
\* more: the compaction is about to run on a store that has free cells
NoDanglingNeighborWitness ==
    /\ pc = "loop"
    /\ loop_i = nb_vertices
    /\ last_insert.ret # NO_TETRAHEDRON
    /\ Len(last_insert.conflict) >= 2
    /\ first_free_ # END_OF_LIST
    /\ \E t \in NonFreeCells : VERTEX_AT_INFINITY \notin CellVertices(t)


(***************************************************************************)
(* Neighbors share a face                                                  *)
(***************************************************************************)
\* the facets of cell B across which its neighbor is A
FacetsTowards(B, A) == {g \in 0..3 : tet_adjacent(Store, B, g) = A}

\* C27: adjacency is across the matching face: after every completed insert,
\* for every cell A that is not free and every facet f, the neighbor B of A
\* across f has exactly one facet g across which its neighbor is A, and the
\* three vertices of A other than slot f are the three vertices of B other
\* than slot g
AdjacencyAcrossFace ==
    pc = "loop" =>
        \A A \in NonFreeCells : \A f \in 0..3 :
            /\ tet_adjacent(Store, A, f) \in AllCells
            /\ Cardinality(FacetsTowards(tet_adjacent(Store, A, f), A)) = 1
            /\ \A g \in FacetsTowards(tet_adjacent(Store, A, f), A) :
                  FacetVertices(A, f) = FacetVertices(tet_adjacent(Store, A, f), g)

\* two inserts have been completed, the last one with a conflict zone of
\* three cells or more, and a real cell has a real neighbor
AdjacencyAcrossFaceWitness ==
    /\ pc = "loop"
    /\ loop_i >= 6
    /\ last_insert.ret # NO_TETRAHEDRON
    /\ Len(last_insert.conflict) >= 3
    /\ \E A \in NonFreeCells : \E f \in 0..3 :
          /\ VERTEX_AT_INFINITY \notin CellVertices(A)
          /\ VERTEX_AT_INFINITY \notin CellVertices(tet_adjacent(Store, A, f))


(***************************************************************************)
(* Mark stamps                                                             *)
(***************************************************************************)
\* the vertices that the insertion loop has given to insert so far
GivenToInsert == Processed \ First4

\* C28 as stated: the stamp set for an insertion is strictly greater than the
\* stamp of the insertion before it, and so than the stamp of every earlier one
StampIncreasingStep ==
    \A v \in 0..(nb_vertices - 1) :
        (InsertStep(v) /\ GivenToInsert # {}) => cur_stamp_' > cur_stamp_

StampIncreasing == [][StampIncreasingStep]_vars

StampOfVertexStep ==
    \A v \in 0..(nb_vertices - 1) :
        InsertStep(v) =>
            /\ cur_stamp_' = v + NOT_IN_LIST_BIT
            /\ GivenToInsert # {} => cur_stamp_ = last_insert.v + NOT_IN_LIST_BIT
            /\ (~do_reorder_ /\ GivenToInsert # {}) =>
                  /\ cur_stamp_' > cur_stamp_
                  /\ \A u \in GivenToInsert : cur_stamp_' > u + NOT_IN_LIST_BIT

\* C28, amended: the mark stamp is the index of the inserted vertex with the
\* NOT_IN_LIST bit set, not a counter: within one set_vertices call the stamp
\* that find_conflict_zone sets for the insertion of v is v | NOT_IN_LIST_BIT,
\* and it is strictly greater than the stamp used by every earlier insertion
\* when the vertices are inserted in the order of their indices (no reordering)
StampOfVertex == [][StampOfVertexStep]_vars

\* without reordering, two inserts have been done, the second with the stamp
\* of its vertex
StampOfVertexWitness ==
    /\ pc = "loop"
    /\ ~do_reorder_
    /\ Cardinality(GivenToInsert) >= 2
    /\ last_insert.v >= 5
    /\ cur_stamp_ = last_insert.v + NOT_IN_LIST_BIT


\* the stamps that the insertions made so far have used
StampsUsed == {u + NOT_IN_LIST_BIT : u \in GivenToInsert}

\* the cells of the store that carry a mark made with stamp s
MarkedWith(s) == {t \in AllCells : At(cell_next_, t) = s}

StampsNeverRepeatStep ==
    \A v \in 0..(nb_vertices - 1) :
        InsertStep(v) =>
            /\ cur_stamp_' \notin StampsUsed
            /\ cur_stamp_' < 0 /\ cur_stamp_' # NOT_IN_LIST
            /\ MarkedWith(cur_stamp_') = {}
            /\ \A t \in AllCells : ~tet_is_marked(set_tet_mark_stamp(Store, v), t)

\* C29: stamps never repeat: no two insertions of one set_vertices call use
\* the same mark stamp, so that a cell marked as visited and not in conflict by
\* an earlier insertion is never treated as marked by a later insertion
StampsNeverRepeat == [][StampsNeverRepeatStep]_vars

\* after two inserts or more, a cell still carries the mark of an insertion
\* that is not the last one
StampsNeverRepeatWitness ==
    /\ pc = "loop"
    /\ last_insert.ret # NO_TETRAHEDRON
    /\ \E u \in GivenToInsert \ {last_insert.v} :
          MarkedWith(u + NOT_IN_LIST_BIT) # {}


(***************************************************************************)
(* Termination of insert                                                   *)
(***************************************************************************)
\* the cells that the while loop of lines 856-861 enters from next_t, turning
\* around the edge ev1 ev2 inside the conflict zone; the walk is cut after
\* fuel cells, and then ends with WALK_DIVERGED
RECURSIVE EdgeTurn(_, _, _, _, _)
EdgeTurn(m, next_t, ev1, ev2, fuel) ==
    IF ~tet_is_in_list(m, next_t) THEN <<>>
    ELSE IF fuel = 0 THEN <<WALK_DIVERGED>>
    ELSE <<next_t>> \o
         EdgeTurn(m, tet_adjacent(m, next_t, get_facet_by_halfedge(m, next_t, ev1, ev2)),
                  ev1, ev2, fuel - 1)

\* the loop around the edge of t1 shared by its facets new_f and f1
EdgeTurnOf(m, t1, f1, new_f, fuel) ==
    EdgeTurn(m, tet_adjacent(m, t1, new_f),
             tet_vertex(m, t1, At(At(halfedge_facet_, new_f), f1)),
             tet_vertex(m, t1, At(At(halfedge_facet_, f1), new_f)), fuel)

\* no entry of the sequence s occurs twice
NoRepeat(s) == \A j, k \in 1..Len(s) : s[j] = s[k] => j = k

\* every loop around an edge of the facet f1 of t1 leaves the zone, whose
\* list has n cells, after less than n cells and without coming back to t1
EdgeLoopsLeave(m, t1, f1, n) ==
    \A new_f \in (0..3) \ {f1} :
        \A path \in {EdgeTurnOf(m, t1, f1, new_f, n)} :
            /\ Len(path) < n
            /\ NoRepeat(path)
            /\ \A k \in 1..Len(path) : path[k] # t1 /\ path[k] # WALK_DIVERGED

\* the stellation of zone z with the list of cells list ends: calls are its
\* invocations
StellationEnds(z, list, calls) ==
    /\ calls # <<>>
    /\ Len(calls) <= 4 * Len(list)
    /\ NoRepeat([k \in 1..Len(calls) |-> <<calls[k].t1, calls[k].f1>>])
    /\ \A k \in 1..Len(calls) : EdgeLoopsLeave(z.m, calls[k].t1, calls[k].f1, Len(list))

\* the flood fill that gave zone z chained or marked each cell at most once,
\* and the stellation of a zone that is not empty ends
ZoneEnds(z, v) ==
    /\ NoRepeat(z.m.visits)
    /\ Len(z.m.visits) <= max_t(z.m)
    /\ z.first # END_OF_LIST =>
          \A calls \in {CallsOf(z, v)} : StellationEnds(z, ListCells(z.m, z.first), calls)

\* insert(v, hint) returns whatever the random draws of locate are
InsertEnds(v) ==
    \A loc \in locate(Store, vertex_ptr(v), hint) :
        /\ loc.t \notin {WALK_DIVERGED, NEVER_RETURNS}
        /\ loc.t \in AllCells
        /\ \A z \in {find_conflict_zone(Store, v, loc.t, loc.orient, UNINIT, UNINIT)} :
              ZoneEnds(z, v)

\* the insertion loop is about to call insert
AboutToInsert ==
    /\ pc = "loop"
    /\ loop_i < nb_vertices
    /\ At(reorder_, loop_i) \notin First4

InsertEndsInv == AboutToInsert => InsertEnds(At(reorder_, loop_i))

\* set_vertices, once called, runs on: each of its steps is taken once it can
\* be.  The steps CreateFirst and Finish can be taken exactly when pc = "first"
\* and when the loop has ended, and both leave that position, so that their
\* weak fairness is that the call is not at that position for ever
SpecFair ==
    /\ Init
    /\ [][NextRecycle]_vars
    /\ WF_vars(LoopStep)
    /\ []<>(pc # "first")
    /\ []<>~(pc = "loop" /\ loop_i = nb_vertices)

\* C30: every insert call on a mesh that satisfies the adjacency and Delaunay
\* invariants terminates: the exact walk of locate reaches a terminal cell
\* (here for every sequence of random facets, fair or not), the flood fill
\* visits each cell at most once, each edge-turning loop of the stellation
\* leaves the conflict zone after finitely many steps without returning to
\* t1, and the recursion of the stellation ends; so the insertion loop, once
\* entered, reaches the return of set_vertices
InsertTerminates == []InsertEndsInv /\ ((pc = "loop") ~> (pc = "returned"))

\* an insert has just returned whose conflict zone had three cells or more,
\* two of them neighbors, so that a loop around an edge went through a cell of
\* the zone, after a walk that started from the cell an earlier insert returned
InsertTerminatesWitness ==
    /\ pc = "loop"
    /\ Cardinality(GivenToInsert) >= 2
    /\ last_insert.ret # NO_TETRAHEDRON
    /\ Len(last_insert.conflict) >= 3
    /\ \E j, k \in 1..Len(last_insert.conflict) : \E f \in 0..3 :
          tet_adjacent(Store, last_insert.conflict[j], f) = last_insert.conflict[k]

(***************************************************************************)
(* The inexact walk, one facet at a time, with any sign of the predicate   *)
(***************************************************************************)
\* the cap given to locate_inexact, which stands for the 2500 of line 571
MaxIter == 2

\* the inputs of the meshes that are walked: the corners A, B, D, E of the
\* pool with F inside, and with F and H inside
InexactInputs == {ThreadInput, <<1, 2, 4, 5, 6, 7>>}

SetVerticesInexact ==
    /\ pc = "idle"
    /\ \E q \in InexactInputs, go \in BOOLEAN : Begin(q, Identity(Len(q)), go)

\* locate_inexact(p, h, MaxIter) is called, lines 455-481: the hint is drawn if
\* there is none (for ever when no cell can be drawn) and the walk starts from
\* a real cell; moves counts the assignments t = t_next of the call
InexactCall ==
    /\ Queryable
    /\ \E h \in {NO_TETRAHEDRON} \cup HintCells :
         \E r \in (IF h = NO_TETRAHEDRON THEN DrawHint(Store) ELSE {h}) :
            query' = [op |-> "locate_inexact", at |-> pc, hint |-> h,
                      where |-> IF r = NEVER_RETURNS THEN "random_461" ELSE "for",
                      t |-> IF r = NEVER_RETURNS THEN r ELSE RealStart(Store, r),
                      t_pred |-> NO_TETRAHEDRON, f |-> 0, max_iter |-> MaxIter,
                      moves |-> 0, ret |-> UNINIT]
    /\ QueryDone

\* one pass of the body of the for loop of lines 491-545 in the call c, or the
\* return of line 553 when the facets are exhausted; ori is what
\* orient_3d_inexact returned at line 519
InexactIteration(m, c, ori) ==
    IF c.f = 4 THEN [c EXCEPT !.where = "returned", !.ret = c.t]
    ELSE IF tet_adjacent(m, c.t, c.f) = -1
    THEN [c EXCEPT !.where = "returned", !.ret = NO_TETRAHEDRON]
    ELSE IF tet_adjacent(m, c.t, c.f) = c.t_pred THEN [c EXCEPT !.f = c.f + 1]
    ELSE IF ori # NEGATIVE THEN [c EXCEPT !.f = c.f + 1]
    ELSE IF tet_is_virtual(m, tet_adjacent(m, c.t, c.f))
    THEN [c EXCEPT !.where = "returned", !.ret = tet_adjacent(m, c.t, c.f)]
    ELSE IF DecIter(c.max_iter) # 0
    THEN [c EXCEPT !.t_pred = c.t, !.t = tet_adjacent(m, c.t, c.f),
                   !.max_iter = DecIter(c.max_iter), !.moves = c.moves + 1, !.f = 0]
    ELSE [c EXCEPT !.t_pred = c.t, !.t = tet_adjacent(m, c.t, c.f),
                   !.max_iter = DecIter(c.max_iter), !.moves = c.moves + 1,
                   !.f = c.f + 1]

\* the walk goes on by one facet, whatever the sign of the inexact predicate;
\* the model follows it for one move more than the cap allows
InexactFacet ==
    /\ pc = "queried"
    /\ query.op = "locate_inexact"
    /\ query.where = "for"
    /\ query.moves <= MaxIter
    /\ \E ori \in {NEGATIVE, ZERO, POSITIVE} :
         query' = InexactIteration(Store, query, ori)
    /\ UNCHANGED <<weighted_, keep_infinite_, do_reorder_, vertices, heights_, reorder_,
                   cell_to_v_store_, cell_to_cell_store_, cell_next_, first_free_,
                   cur_stamp_, nb_cells_, nb_finite_cells_, pc, loop_i, hint, first4,
                   last_insert, cb_log, result, nb_calls, ctor, threads>>

NextInexact ==
    SetVerticesInexact \/ CreateFirst \/ LoopStep \/ Finish \/ InexactCall
        \/ InexactFacet

\* a mesh is built, and walked by locate_inexact during or after its construction
SpecInexact == Init /\ [][NextInexact]_vars

InWalk(i) == threads.call[i].pc \in {"still_walking", "random_621"}

\* thread i runs locate with thread_safe set
ThreadSafe(i) == threads.call[i].op = "locate" /\ threads.call[i].thread_safe

\* C32 as stated: the spinlock serializes only the draw of the random hint, so
\* that no thread holds it while it walks: whenever a thread that called
\* locate with thread_safe set is inside the exact walk loop, the lock is free
\* (and two such threads can then be inside the loop at the same time).
WalkIsUnlocked ==
    \A i \in Threads : (ThreadSafe(i) /\ InWalk(i)) => ~threads.lock

\* C32: the spinlock serializes the draw of the random hint and the exact walk,
\* which draws a random facet in every cell: a thread that called locate with
\* thread_safe set holds the lock for as long as it is inside the exact walk
\* loop, and no two such threads are inside the loop at the same time.
WalkIsSerialized ==
    /\ \A i \in Threads : (ThreadSafe(i) /\ InWalk(i)) => threads.lock
    /\ \A i \in Threads, j \in Threads :
          (ThreadSafe(i) /\ InWalk(i) /\ ThreadSafe(j) /\ InWalk(j)) => i = j

\* a thread is inside the random generator at line 621 of the walk of a
\* thread_safe call while another thread_safe call waits for the lock
WalkIsSerializedWitness ==
    \E i \in Threads, j \in Threads :
        /\ ThreadSafe(i) /\ threads.call[i].pc = "random_621"
        /\ threads.call[i].t_pred # NO_TETRAHEDRON
        /\ ThreadSafe(j) /\ threads.call[j].pc = "acquire"
        /\ threads.lock

(***************************************************************************)
(* Lock discipline of locate                                               *)
(***************************************************************************)
\* thread i has acquired the spinlock and not released it
Holds(i) == threads.call[i].acquired > threads.call[i].released

\* thread i waits for the spinlock at line 580
Waits(i) == At_(i, "acquire") /\ threads.call[i].thread_safe /\ threads.lock

\* the positions of locate between the acquire of line 580 and a return, from
\* each of which the call has a next step
LockedPositions == {"hint", "random_585", "still_walking", "random_621"}

NegativeSides(t, p) ==
    {c \in NonFreeCells :
        /\ tet_is_real(Store, c)
        /\ \E f \in 0..3 :
              /\ tet_adjacent(Store, c, f) = t
              /\ OrientFacet(CellPoints(Store, c), f, p) = NEGATIVE}

\* every virtual cell a hint can name is replaced, at lines 594-602, by a real
\* cell, its neighbor across the facet opposite to its infinite vertex
VirtualHintsReplaced ==
    \A h \in NonFreeCells :
        tet_is_virtual(Store, h) =>
            /\ tet_is_real(Store, RealStart(Store, h))
            /\ \E lf \in 0..3 :
                  /\ tet_vertex(Store, h, lf) = VERTEX_AT_INFINITY
                  /\ tet_adjacent(Store, h, lf) = RealStart(Store, h)

LocateVirtualStep ==
    \A v \in 0..(nb_vertices - 1) :
        InsertStep(v) =>
            /\ VirtualHintsReplaced
            /\ (last_insert'.t >= 0 /\ tet_is_virtual(Store, last_insert'.t)) =>
                  /\ NegativeSides(last_insert'.t, vertex_ptr(v)) # {}
                  /\ last_insert'.orient = <<POSITIVE, POSITIVE, POSITIVE, POSITIVE>>
                  /\ tet_is_conflict(set_tet_mark_stamp(Store, v), last_insert'.t, v)

\* C34: when the locate of an insert returns a virtual cell, that cell is the
\* neighbor of a real cell across a facet whose exact orientation for p is
\* NEGATIVE, the four signs reported are POSITIVE and p is in conflict with
\* the cell; and a virtual hint is first replaced by its neighbor opposite to
\* the infinite vertex, which is a real cell.
LocateVirtual == [][LocateVirtualStep]_vars

\* an insert has just been done, after another one, of a point outside the
\* hull: its locate reported four POSITIVE signs and the cell it returned, which
\* is in the conflict list, was virtual, since the point is now a vertex of a
\* virtual cell
LocateVirtualWitness ==
    /\ pc = "loop"
    /\ last_insert.t >= 0
    /\ last_insert.orient = <<POSITIVE, POSITIVE, POSITIVE, POSITIVE>>
    /\ last_insert.ret # NO_TETRAHEDRON
    /\ \E k \in 1..Len(last_insert.conflict) : last_insert.conflict[k] = last_insert.t
    /\ VERTEX_AT_INFINITY \in CellVertices(last_insert.ret)
    /\ loop_i >= 6

(***************************************************************************)
(* The hint of the insertion loop                                          *)
(***************************************************************************)
\* C35 as stated: the hint given to an insert call is the value returned by
\* the insert call before it, also when that call inserted nothing (and
\* returned NO_TETRAHEDRON).
HintIsPreviousReturnStep ==
    \A v \in 0..(nb_vertices - 1) :
        (InsertStep(v) /\ GivenToInsert # {}) => hint = last_insert.ret

HintIsPreviousReturn == [][HintIsPreviousReturnStep]_vars

HintIsLastCellStep ==
    \A v \in 0..(nb_vertices - 1) :
        InsertStep(v) =>
            /\ GivenToInsert = {} => hint = NO_TETRAHEDRON
            /\ (GivenToInsert # {} /\ last_insert.ret # NO_TETRAHEDRON) =>
                  hint = last_insert.ret
            /\ last_insert'.ret # NO_TETRAHEDRON => hint' = last_insert'.ret
            /\ last_insert'.ret = NO_TETRAHEDRON => hint' = hint

\* C35: the hint given to the first insert call is NO_TETRAHEDRON, the hint
\* given to an insert call that follows a call that returned a cell is that
\* cell, and a call that inserted nothing leaves the hint as it was: the hint
\* of a call is the value returned by the last earlier call that returned a
\* cell.
HintIsLastCell == [][HintIsLastCellStep]_vars

\* three inserts were made: the last but one, of a point with the coordinates
\* of a vertex of the first tetrahedron, did nothing, the one before it and
\* the last one each made cells
HintIsLastCellWitness ==
    /\ pc = "loop"
    /\ loop_i >= 3
    /\ last_insert.ret # NO_TETRAHEDRON
    /\ last_insert.v = At(reorder_, loop_i - 1)
    /\ At(reorder_, loop_i - 2) \notin First4
    /\ \E u \in First4 :
          points_are_identical(vertex_ptr(u), vertex_ptr(At(reorder_, loop_i - 2)))
    /\ At(reorder_, loop_i - 3) \notin First4
    /\ Covered(At(reorder_, loop_i - 3))

\* C36: in every state of the insertion loop the hint that the next insert is
\* given is NO_TETRAHEDRON or a cell that is not free, and the cell returned
\* by the last insert, if it returned one, is not free after the recycling of
\* the conflict zone and has the inserted vertex among its vertices.
HintValid ==
    pc = "loop" =>
        /\ hint = NO_TETRAHEDRON \/ hint \in NonFreeCells
        /\ last_insert.ret # NO_TETRAHEDRON =>
              /\ last_insert.ret \in NonFreeCells
              /\ last_insert.v \in CellVertices(last_insert.ret)
              /\ hint = last_insert.ret

\* an insert that did nothing has left as hint the cell returned by the
\* insert before it, the free list holds the cells recycled by that insert,
\* and the loop is about to give the hint to another insert
HintValidWitness ==
    /\ pc = "loop"
    /\ last_insert.v >= 0
    /\ last_insert.ret = NO_TETRAHEDRON
    /\ hint # NO_TETRAHEDRON
    /\ \E t \in AllCells : tet_is_free(Store, t)
    /\ loop_i < nb_vertices
    /\ At(reorder_, loop_i) \notin First4

(***************************************************************************)
(* The first tetrahedron                                                   *)
(***************************************************************************)
\* the least element of S, or nb_vertices when there is none
FirstWhere(S) == IF S = {} THEN nb_vertices ELSE CHOOSE x \in S : \A y \in S : x <= y

\* the positions in the sequence ord of vertex indices that a scan of ord from
\* its first position keeps: the first position whose point differs from the
\* point of position 0, then the first later one not on the line of these
\* two, then the first later one not on the plane of these three
Position1(ord) ==
    FirstWhere({k \in 1..(nb_vertices - 1) :
        ~points_are_identical(vertex_ptr(At(ord, 0)), vertex_ptr(At(ord, k)))})

Position2(ord) ==
    FirstWhere({k \in (Position1(ord) + 1)..(nb_vertices - 1) :
        ~points_are_colinear(vertex_ptr(At(ord, 0)), vertex_ptr(At(ord, Position1(ord))),
                             vertex_ptr(At(ord, k)))})

Position3(ord) ==
    FirstWhere({k \in (Position2(ord) + 1)..(nb_vertices - 1) :
        orient_3d(vertex_ptr(At(ord, 0)), vertex_ptr(At(ord, Position1(ord))),
                  vertex_ptr(At(ord, Position2(ord))), vertex_ptr(At(ord, k))) # ZERO})

\* the four vertices that the scan of ord keeps, if it keeps four
GreedyQuadruple(ord) ==
    IF nb_vertices < 4 \/ Position3(ord) >= nb_vertices THEN <<>>
    ELSE <<At(ord, 0), At(ord, Position1(ord)), At(ord, Position2(ord)),
           At(ord, Position3(ord))>>

\* q with its last two vertices exchanged if its orientation is negative
PositivelyOriented(q) ==
    IF q = <<>> THEN q
    ELSE IF orient_3d(vertex_ptr(q[1]), vertex_ptr(q[2]), vertex_ptr(q[3]),
                      vertex_ptr(q[4])) = NEGATIVE
    THEN <<q[1], q[2], q[4], q[3]>>
    ELSE q

\* C37 as stated: the four vertices of the first tetrahedron are the first
\* four positions of the reorder permutation, taken in the order of the
\* permutation, that are not identical, collinear or coplanar.
FirstTetrahedronInPermutationOrder ==
    first4 # <<>> => first4 = PositivelyOriented(GreedyQuadruple(reorder_))

\* C37: the four vertices of the first tetrahedron are the first four vertex
\* indices, taken in increasing order from vertex 0, that are not identical,
\* collinear or coplanar, whatever the reorder permutation is (the last two
\* are exchanged if their orientation is negative).
FirstTetrahedronInIndexOrder ==
    first4 # <<>> => first4 = PositivelyOriented(GreedyQuadruple(Identity(nb_vertices)))

\* the input was reordered, the first tetrahedron was made skipping a vertex
\* and is not the one that the scan of the permutation would give
FirstTetrahedronInIndexOrderWitness ==
    /\ FirstTetrahedronMade
    /\ do_reorder_
    /\ reorder_ # Identity(nb_vertices)
    /\ first4 # <<>>
    /\ First4 # {0, 1, 2, 3}
    /\ first4 # PositivelyOriented(GreedyQuadruple(reorder_))

\* the three points are on one line: the cross product of q - p and r - p is 0
OnOneLine(p, q, r) ==
    /\ (q[2] - p[2]) * (r[3] - p[3]) = (q[3] - p[3]) * (r[2] - p[2])
    /\ (q[3] - p[3]) * (r[1] - p[1]) = (q[1] - p[1]) * (r[3] - p[3])
    /\ (q[1] - p[1]) * (r[2] - p[2]) = (q[2] - p[2]) * (r[1] - p[1])

\* C38: create_first_tetrahedron returns false exactly when the input has
\* fewer than 4 points or every four of its points are coplanar, and when it
\* returns true the four vertices it chose are not coplanar; and
\* points_are_colinear is true of three input points exactly when they are on
\* one line.
FirstTetrahedronExists ==
    /\ Degenerate => (nb_vertices < 4 \/ DegenerateInput)
    /\ first4 # <<>> =>
          /\ nb_vertices >= 4
          /\ ~DegenerateInput
          /\ ~Coplanar(First4)
    /\ pc = "loop" => first4 # <<>>
    /\ pc = "first" =>
          \A a, b, c \in 0..(nb_vertices - 1) :
              points_are_colinear(vertex_ptr(a), vertex_ptr(b), vertex_ptr(c))
                  <=> OnOneLine(vertex_ptr(a), vertex_ptr(b), vertex_ptr(c))

\* create_first_tetrahedron returned false on an input of four points or more
\* that are on one plane and not on one line
FirstTetrahedronExistsWitness ==
    /\ Degenerate
    /\ nb_vertices >= 4
    /\ \E a, b, c \in 0..(nb_vertices - 1) :
          ~OnOneLine(vertex_ptr(a), vertex_ptr(b), vertex_ptr(c))

(***************************************************************************)
(* Orientation of the finite cells                                         *)
(***************************************************************************)
\* orient_3d of the four vertices of the finite cell t
CellOrientation(t) ==
    orient_3d(vertex_ptr(tet_vertex(Store, t, 0)), vertex_ptr(tet_vertex(Store, t, 1)),
              vertex_ptr(tet_vertex(Store, t, 2)), vertex_ptr(tet_vertex(Store, t, 3)))

\* the finite cells of the mesh between two operations: the non-free ones
\* during the construction, the published ones afterwards
FiniteCellsNow ==
    IF pc = "loop" THEN {t \in NonFreeCells : tet_is_finite(Store, t)}
    ELSE IF Finalized THEN {t \in PublishedCells : tet_is_finite(Store, t)}
    ELSE {}

\* C39: the four vertices of every finite cell, between two operations, are
\* not coplanar; the first tetrahedron, cell 0 on the four vertices chosen,
\* has a strictly positive orientation; every finite cell made by a
\* stellation has an orientation other than ZERO.
FiniteCellsNotFlat ==
    /\ \A t \in FiniteCellsNow : CellOrientation(t) # ZERO
    /\ FirstTetrahedronMade =>
          /\ <<tet_vertex(Store, 0, 0), tet_vertex(Store, 0, 1), tet_vertex(Store, 0, 2),
               tet_vertex(Store, 0, 3)>> = first4
          /\ CellOrientation(0) = POSITIVE
    /\ (pc = "loop" /\ last_insert.ret # NO_TETRAHEDRON) =>
          \A t \in FiniteCellsNow :
              last_insert.v \in CellVertices(t) => CellOrientation(t) # ZERO

\* the scan kept a quadruple of negative orientation, whose last two vertices
\* were exchanged, and a stellation has since made finite cells around a
\* point on a line through two earlier vertices
FiniteCellsNotFlatWitness ==
    /\ pc = "loop"
    /\ first4[3] > first4[4]
    /\ last_insert.ret # NO_TETRAHEDRON
    /\ \E t \in FiniteCellsNow : last_insert.v \in CellVertices(t)
    /\ \E a, b \in Inserted \ {last_insert.v} :
          /\ a # b
          /\ OnOneLine(vertex_ptr(a), vertex_ptr(b), vertex_ptr(last_insert.v))


(***************************************************************************)
(* Pre-seeding of the conflict list (lines 749-767)                        *)
(***************************************************************************)
\* the store in which find_conflict_zone starts its tests for the insert done
\* by the step: the stamp is the one of the vertex, no cell is listed or marked
StampedStore == set_tet_mark_stamp(Store, last_insert'.v)

\* the zone that lines 745 and 772 alone give for the insert done by the step:
\* the located cell is listed and the flood fill starts from it
FloodFromLocated ==
    find_conflict_zone_recursive(
        ListAdd([m |-> StampedStore, t_bndry |-> UNINIT, f_bndry |-> UNINIT,
                 first |-> END_OF_LIST, last |-> END_OF_LIST], last_insert'.t),
        last_insert'.v, last_insert'.t, 0)

\* the neighbors of the located cell across its ZERO facets
ZeroNeighbors ==
    {tet_adjacent(Store, last_insert'.t, lf) :
         lf \in {f \in 0..3 : At(last_insert'.orient, f) = ZERO}}

PreSeedingStep ==
    \A v \in 0..(nb_vertices - 1) :
        (/\ InsertStep(v)
         /\ ~weighted_
         /\ nb_zero(last_insert'.orient) \in {1, 2})
        => /\ last_insert'.v = v
           /\ \A t2 \in ZeroNeighbors :
                 /\ tet_is_conflict(StampedStore, t2, v)
                 /\ t2 \in ZoneOfStep
           /\ \A list \in {ListCells(FloodFromLocated.m, FloodFromLocated.first)} :
                 ZoneOfStep = {list[k] : k \in 1..Len(list)}

\* C40: in unweighted mode, when the located cell t has one or two ZERO facet
\* orientations for p, every neighbor of t across a ZERO facet, finite or
\* virtual, is in conflict with p and is in the conflict list, and the
\* conflict list holds the same cells as the flood fill from t alone
PreSeedingSound == [][PreSeedingStep]_vars

\* an unweighted insert of a point on one facet of the located cell has just
\* been done, and the point is on the convex hull: a virtual cell holds it
PreSeedingSoundWitness ==
    /\ pc = "loop"
    /\ ~weighted_
    /\ last_insert.ret # NO_TETRAHEDRON
    /\ nb_zero(last_insert.orient) = 1
    /\ Len(last_insert.conflict) >= 2
    /\ \E n \in AllCells :
          /\ last_insert.v \in CellVertices(n)
          /\ VERTEX_AT_INFINITY \in CellVertices(n)

=============================================================================
